---- MODULE Spec2Model ----
(***************************************************************************)
(* Model of the streaming translator of rust_proxy/src/sse_processor.rs:   *)
(* the SSE line parser, the event dispatcher and the stream::unfold driver *)
(* process_dev_bytes_stream_unfold.                                        *)
(*                                                                         *)
(* A Rust String is a sequence of characters, each character a TLA+ string *)
(* (an ASCII character is the one-character string; the non-ASCII          *)
(* characters are named "U+E9" and "U+FFFD", and so are U+0008, "U+8",    *)
(* and U+0060, "U+60", which a TLA+ string cannot hold; any other         *)
(* character is named by its code point, CodePoint).  A byte of the        *)
(* upstream is                                                             *)
(* a TLA+ string too: an ASCII byte is its character, the two bytes of the *)
(* UTF-8 encoding of U+00E9 are named "xC3" and "xA9".  Option<T> is a     *)
(* sequence of length 0 (None) or 1 (Some).                                *)
(***************************************************************************)
EXTENDS Integers, Sequences, FiniteSets, TLC

VARIABLES
    state,        \* the unfold State struct (sse_processor.rs:165-175)
    byte_stream,  \* what the upstream has delivered so far: "open", "eof", "err"
    pc,           \* position of the driver: "idle", "await" or "ended"
    out,          \* the items the output stream has yielded, in order
    fed,          \* the bytes the upstream has delivered, concatenated
    log,          \* the dispatches made: <<event_name, data, where>>
    polls,        \* how often byte_stream.next() has been awaited
    frags,        \* the byte fragments the upstream composes its batches of
    sse,          \* the SSE events the HTTP layer has sent, in order
    http,         \* the request, the upstream's answer and the handler's response
    now           \* the system clock: the seconds since the Unix epoch

vars == <<state, byte_stream, pc, out, fed, log, polls, frags, sse, http, now>>

-----------------------------------------------------------------------------
(* Characters, bytes and string constants                                  *)

LF == "\n"
CR == "\r"
SP == " "
TAB == "\t"
FF == "\f"

\* A character the model has no other name for, by its code point: one name
\* for each code point.
CodePoint(cp) == ToString(<<"U+", cp>>)
COLON == ":"
REPLACEMENT == "U+FFFD"
E_ACUTE == "U+E9"
LEAD_C3 == "xC3"
CONT_A9 == "xA9"

None == <<>>
Some(x) == <<x>>

S_event == <<"e", "v", "e", "n", "t">>
S_data == <<"d", "a", "t", "a">>
S_id == <<"i", "d">>
S_retry == <<"r", "e", "t", "r", "y">>
S_message == <<"m", "e", "s", "s", "a", "g", "e">>
S_content == <<"c", "o", "n", "t", "e", "n", "t">>
S_c == <<"c">>
S_action == <<"a", "c", "t", "i", "o", "n">>
S_sources == <<"s", "o", "u", "r", "c", "e", "s">>
S_repoSources == <<"r", "e", "p", "o", "S", "o", "u", "r", "c", "e", "s">>
S_rlq == <<"r", "l", "q">>
S_q == <<"q">>
S_r == <<"r">>
S_threadId == <<"t", "h", "r", "e", "a", "d", "I", "d">>
S_queryMessageId == <<"q", "u", "e", "r", "y", "M", "e", "s", "s", "a", "g", "e", "I", "d">>
S_answerMessageId == <<"a", "n", "s", "w", "e", "r", "M", "e", "s", "s", "a", "g", "e", "I", "d">>
S_threadTitle == <<"t", "h", "r", "e", "a", "d", "T", "i", "t", "l", "e">>
S_error == <<"e", "r", "r", "o", "r">>
S_finish == <<"f", "i", "n", "i", "s", "h">>
S_stop == <<"s", "t", "o", "p">>
S_assistant == <<"a", "s", "s", "i", "s", "t", "a", "n", "t">>
S_chunk_object == <<"c", "h", "a", "t", ".", "c", "o", "m", "p", "l", "e", "t", "i", "o", "n", ".", "c", "h", "u", "n", "k">>
S_unknown_dev_model == <<"u", "n", "k", "n", "o", "w", "n", "-", "d", "e", "v", "-", "m", "o", "d", "e", "l">>
S_stream_error_prefix == <<"[", "S", "T", "R", "E", "A", "M", "_", "E", "R", "R", "O", "R", "]", ":", " ">>

-----------------------------------------------------------------------------
(* The str methods the code calls                                          *)

\* str::find(c): the index of the first c in s, 0 when there is none.
Find(s, c) ==
    IF \E i \in 1..Len(s) : s[i] = c
    THEN CHOOSE i \in 1..Len(s) : s[i] = c /\ \A j \in 1..(i - 1) : s[j] # c
    ELSE 0

\* The index of the last character of s that is not in cs, 0 when all are.
LastOutside(s, cs) ==
    IF \E i \in 1..Len(s) : s[i] \notin cs
    THEN CHOOSE i \in 1..Len(s) : s[i] \notin cs /\ \A j \in (i + 1)..Len(s) : s[j] \in cs
    ELSE 0

\* The index of the first character of s that is not in cs, Len(s) + 1 when
\* all are.
FirstOutside(s, cs) ==
    IF \E i \in 1..Len(s) : s[i] \notin cs
    THEN CHOOSE i \in 1..Len(s) : s[i] \notin cs /\ \A j \in 1..(i - 1) : s[j] \in cs
    ELSE Len(s) + 1

\* str::trim_end_matches(pattern): s without its trailing characters in cs.
TrimEndMatches(s, cs) == SubSeq(s, 1, LastOutside(s, cs))

\* str::trim_start_matches(pattern): s without its leading characters in cs.
TrimStartMatches(s, cs) == SubSeq(s, FirstOutside(s, cs), Len(s))

\* The code points of White_Space that have no name of their own: U+000B,
\* U+0085, U+00A0, U+1680, U+2000 to U+200A, U+2028, U+2029, U+202F, U+205F
\* and U+3000.
OtherWhitespace ==
    {11, 133, 160, 5760, 8232, 8233, 8239, 8287, 12288} \cup (8192..8202)

\* The characters char::is_whitespace accepts.
Whitespace ==
    {SP, LF, CR, TAB, FF} \cup {CodePoint(cp) : cp \in OtherWhitespace}

\* str::trim().
Trim(s) == TrimStartMatches(TrimEndMatches(s, Whitespace), Whitespace)

\* str::split(c), collected: the pieces between the occurrences of c.
RECURSIVE Split(_, _)
Split(s, c) ==
    IF Find(s, c) = 0 THEN <<s>>
    ELSE <<SubSeq(s, 1, Find(s, c) - 1)>>
             \o Split(SubSeq(s, Find(s, c) + 1, Len(s)), c)

\* [String]::join(sep).
RECURSIVE Join(_, _)
Join(list, sep) ==
    IF Len(list) = 0 THEN <<>>
    ELSE IF Len(list) = 1 THEN list[1]
    ELSE list[1] \o sep \o Join(Tail(list), sep)

\* str::split_once(c).unwrap_or((s, "")).
SplitAt(s, p) ==
    IF p = 0 THEN <<s, <<>>>>
    ELSE <<SubSeq(s, 1, p - 1), SubSeq(s, p + 1, Len(s))>>

SplitOnceOr(s, c) == SplitAt(s, Find(s, c))

\* Every leading c stripped, not only the first.
StripEveryPrefix(s, c) == TrimStartMatches(s, {c})

\* str::strip_prefix(c).unwrap_or(s).
StripPrefixOr(s, c) ==
    IF Len(s) > 0 /\ s[1] = c THEN Tail(s) ELSE s

-----------------------------------------------------------------------------
(* UTF-8 decoding of a byte batch                                          *)

IsAscii(b) == b \notin {LEAD_C3, CONT_A9}

\* What the byte at place i of bytes decodes to: an ASCII byte to its
\* character, the lead byte of a well-formed sequence to the character of the
\* sequence, its continuation byte to nothing; a lead byte without its
\* continuation byte, and a continuation byte without a lead byte, to U+FFFD.
DecodedAt(bytes, i) ==
    IF IsAscii(bytes[i]) THEN <<bytes[i]>>
    ELSE IF bytes[i] = LEAD_C3 /\ i < Len(bytes) /\ bytes[i + 1] = CONT_A9
         THEN <<E_ACUTE>>
    ELSE IF bytes[i] = CONT_A9 /\ i > 1 /\ bytes[i - 1] = LEAD_C3
         THEN <<>>
    ELSE <<REPLACEMENT>>

\* The concatenation of the strings lo..hi of a list.
RECURSIVE Concat(_, _, _)
Concat(list, lo, hi) ==
    IF lo > hi THEN <<>>
    ELSE IF lo = hi THEN list[lo]
    ELSE Concat(list, lo, (lo + hi) \div 2) \o Concat(list, (lo + hi) \div 2 + 1, hi)

\* str::from_utf8(bytes).is_ok(): no byte is ill-formed.
Utf8Valid(bytes) ==
    \A i \in 1..Len(bytes) : DecodedAt(bytes, i) # <<REPLACEMENT>>

\* str::from_utf8(bytes).unwrap(), for bytes that are valid UTF-8.
from_utf8(bytes) ==
    Concat([i \in 1..Len(bytes) |-> DecodedAt(bytes, i)], 1, Len(bytes))

\* String::from_utf8_lossy(bytes): every ill-formed byte becomes U+FFFD.
from_utf8_lossy(bytes) ==
    Concat([i \in 1..Len(bytes) |-> DecodedAt(bytes, i)], 1, Len(bytes))

\* What the match of lines 242-248 pushes onto decoder_buffer for one batch.
DecodeBatch(bytes) ==
    IF Utf8Valid(bytes) THEN from_utf8(bytes)
    ELSE from_utf8_lossy(bytes)

-----------------------------------------------------------------------------
(* parse_sse_line                                                          *)

\* The match of lines 145-151 on the field, value having lost one leading space.
Classify(field, value) ==
    IF field = S_event THEN [tag |-> "Event", value |-> value]
    ELSE IF field = S_data THEN [tag |-> "Data", value |-> value]
    ELSE IF field = S_id THEN [tag |-> "Id", value |-> value]
    ELSE IF field = S_retry THEN [tag |-> "Retry", value |-> value]
    ELSE [tag |-> "Comment", value |-> <<>>]

FieldValue(fv) == Classify(fv[1], StripPrefixOr(fv[2], SP))

parse_sse_line(line) ==
    IF Len(line) = 0 THEN [tag |-> "Empty", value |-> <<>>]
    ELSE IF line[1] = COLON THEN [tag |-> "Comment", value |-> <<>>]
    ELSE FieldValue(SplitOnceOr(line, COLON))

-----------------------------------------------------------------------------
(* safe_json_parse: serde_json::from_str. A JSON value is <<kind, what>>:   *)
(* "str" with its characters, "lit" with null, true or false, "num" with   *)
(* the digits of a u64, "i64" with the digits of the magnitude of a        *)
(* negative i64, "f64" with the sign, the significand and the decimal      *)
(* exponent the f64 is made of, "arr" with the values of an array and      *)
(* "obj" with the map of an object.                                        *)

\* The four characters serde_json skips as whitespace; the form feed is not
\* one of them.
JsonWs == {SP, TAB, LF, CR}
Digits == {"0", "1", "2", "3", "4", "5", "6", "7", "8", "9"}
DigitChars == <<"0", "1", "2", "3", "4", "5", "6", "7", "8", "9">>
U32_MAX == <<"4", "2", "9", "4", "9", "6", "7", "2", "9", "5">>
U64_MAX == <<"1", "8", "4", "4", "6", "7", "4", "4", "0", "7", "3", "7", "0", "9", "5", "5", "1", "6", "1", "5">>

\* The magnitude of i64::MIN.
I64_MIN_MAGNITUDE == <<"9", "2", "2", "3", "3", "7", "2", "0", "3", "6", "8", "5", "4", "7", "7", "5", "8", "0", "8">>
I32_MAX == 2147483647
I32_MIN == (-I32_MAX) - 1

\* The last index of POW10, serde_json's table of the powers of ten from
\* 1e0 on.
POW10_LAST == 308

\* For the exponents from 289 to POW10_LAST, the largest significand whose
\* f64, multiplied by the f64 of that power of ten, is finite. (With an
\* exponent below 289 the product of a u64 is always finite.)
LargestFinite ==
    <<<<"1", "7", "9", "7", "6", "9", "3", "1", "3", "4", "8", "6", "2", "3", "1", "5", "6", "2", "2", "4">>,
      <<"1", "7", "9", "7", "6", "9", "3", "1", "3", "4", "8", "6", "2", "3", "1", "5", "6", "4", "8">>,
      <<"1", "7", "9", "7", "6", "9", "3", "1", "3", "4", "8", "6", "2", "3", "1", "5", "9", "9">>,
      <<"1", "7", "9", "7", "6", "9", "3", "1", "3", "4", "8", "6", "2", "3", "1", "5", "7">>,
      <<"1", "7", "9", "7", "6", "9", "3", "1", "3", "4", "8", "6", "2", "3", "1", "5">>,
      <<"1", "7", "9", "7", "6", "9", "3", "1", "3", "4", "8", "6", "2", "3", "1">>,
      <<"1", "7", "9", "7", "6", "9", "3", "1", "3", "4", "8", "6", "2", "3">>,
      <<"1", "7", "9", "7", "6", "9", "3", "1", "3", "4", "8", "6", "2">>,
      <<"1", "7", "9", "7", "6", "9", "3", "1", "3", "4", "8", "6">>,
      <<"1", "7", "9", "7", "6", "9", "3", "1", "3", "4", "8">>,
      <<"1", "7", "9", "7", "6", "9", "3", "1", "3", "4">>,
      <<"1", "7", "9", "7", "6", "9", "3", "1", "3">>,
      <<"1", "7", "9", "7", "6", "9", "3", "1">>,
      <<"1", "7", "9", "7", "6", "9", "3">>,
      <<"1", "7", "9", "7", "6", "9">>,
      <<"1", "7", "9", "7", "6">>,
      <<"1", "7", "9", "7">>,
      <<"1", "7", "9">>,
      <<"1", "7">>,
      <<"1">>>>

\* remaining_depth of a new Deserializer: arrays and objects nest less deep
\* than this.
RecursionLimit == 128
S_null == <<"n", "u", "l", "l">>
S_true == <<"t", "r", "u", "e">>
S_false == <<"f", "a", "l", "s", "e">>
S_type == <<"t", "y", "p", "e">>
S_title == <<"t", "i", "t", "l", "e">>
S_url == <<"u", "r", "l">>
S_repo == <<"r", "e", "p", "o">>
S_filePath == <<"f", "i", "l", "e", "P", "a", "t", "h">>

JsonFail == [ok |-> FALSE, val |-> <<>>, rest |-> <<>>]
JsonOk(v, rest) == [ok |-> TRUE, val |-> v, rest |-> rest]

SkipWs(s) == TrimStartMatches(s, JsonWs)

HasPrefix(s, pre) == Len(s) >= Len(pre) /\ SubSeq(s, 1, Len(pre)) = pre

\* The length of the run of digits s starts with.
DigitRun(s) == FirstOutside(s, Digits) - 1

\* The value of a decimal digit.
DigitValue(c) == CHOOSE d \in 0..9 : DigitChars[d + 1] = c

\* ds, digits without a leading zero, denotes a number that is at most the
\* one max denotes.
AtMost(ds, max) ==
    \/ Len(ds) < Len(max)
    \/ /\ Len(ds) = Len(max)
       /\ \/ ds = max
          \/ \E i \in 1..Len(ds) :
                /\ DigitValue(ds[i]) < DigitValue(max[i])
                /\ \A j \in 1..(i - 1) : ds[j] = max[j]

\* U+0060, which a string of the model cannot hold as itself.
GRAVE == "U+60"

\* The characters U+0020 to U+007E, in order.
PrintableAscii ==
    <<" ", "!", "\"", "#", "$", "%", "&", "'", "(", ")", "*", "+", ",",
      "-", ".", "/", "0", "1", "2", "3", "4", "5", "6", "7", "8", "9",
      ":", ";", "<", "=", ">", "?", "@", "A", "B", "C", "D", "E", "F",
      "G", "H", "I", "J", "K", "L", "M", "N", "O", "P", "Q", "R", "S",
      "T", "U", "V", "W", "X", "Y", "Z", "[", "\\", "]", "^", "_", GRAVE,
      "a", "b", "c", "d", "e", "f", "g", "h", "i", "j", "k", "l", "m",
      "n", "o", "p", "q", "r", "s", "t", "u", "v", "w", "x", "y", "z",
      "{", "|", "}", "~">>

\* U+0008.
BS == "U+8"

\* The code points below U+0020 that have no name of their own.
OtherControls == (0..31) \ {8, 9, 10, 12, 13}

\* The controls a string literal may not hold unescaped: every character
\* below U+0020.
ControlChars ==
    {BS, TAB, LF, FF, CR} \cup {CodePoint(cp) : cp \in OtherControls}

HexLetters == <<{"a", "A"}, {"b", "B"}, {"c", "C"}, {"d", "D"}, {"e", "E"}, {"f", "F"}>>
IsHex(c) == c \in Digits \/ \E i \in 1..6 : c \in HexLetters[i]
HexValue(c) ==
    IF c \in Digits THEN DigitValue(c)
    ELSE 9 + CHOOSE i \in 1..6 : c \in HexLetters[i]

\* s starts with four hexadecimal digits; the number they denote.
HasHex4(s) == Len(s) >= 4 /\ \A i \in 1..4 : IsHex(s[i])
Hex4(s) ==
    4096 * HexValue(s[1]) + 256 * HexValue(s[2]) + 16 * HexValue(s[3]) + HexValue(s[4])

\* The character of a code point outside the surrogates.
CharOf(cp) ==
    IF cp >= 32 /\ cp <= 126 THEN PrintableAscii[cp - 31]
    ELSE IF cp = 8 THEN BS
    ELSE IF cp = 9 THEN TAB
    ELSE IF cp = 10 THEN LF
    ELSE IF cp = 12 THEN FF
    ELSE IF cp = 13 THEN CR
    ELSE IF cp = 233 THEN E_ACUTE
    ELSE IF cp = 65533 THEN REPLACEMENT
    ELSE CodePoint(cp)

\* The character of a pair of surrogates.
CharOfPair(hi, lo) == CodePoint(65536 + 1024 * (hi - 55296) + (lo - 56320))

\* The characters of a string literal after its opening quote, acc being
\* those read so far: up to the closing quote, escapes decoded; an
\* unescaped control character, an unknown escape, a \u escape without four
\* hexadecimal digits and a surrogate that is not half of a pair are errors.
RECURSIVE StringUpTo(_, _)

\* The escape \u at the head of s, cp being the number of its four digits:
\* a leading surrogate takes the trailing one that follows it.
UnicodeEscape(s, cp, acc) ==
    IF cp >= 56320 /\ cp <= 57343 THEN JsonFail
    ELSE IF cp >= 55296 /\ cp <= 56319 THEN
        IF /\ Len(s) >= 12 /\ s[7] = "\\" /\ s[8] = "u"
           /\ HasHex4(SubSeq(s, 9, 12))
           /\ Hex4(SubSeq(s, 9, 12)) >= 56320 /\ Hex4(SubSeq(s, 9, 12)) <= 57343
        THEN StringUpTo(SubSeq(s, 13, Len(s)),
                        Append(acc, CharOfPair(cp, Hex4(SubSeq(s, 9, 12)))))
        ELSE JsonFail
    ELSE StringUpTo(SubSeq(s, 7, Len(s)), Append(acc, CharOf(cp)))

\* The escape at the head of s.
Escape(s, acc) ==
    IF Len(s) < 2 THEN JsonFail
    ELSE IF s[2] \in {"\"", "\\", "/"} THEN StringUpTo(SubSeq(s, 3, Len(s)), Append(acc, s[2]))
    ELSE IF s[2] = "b" THEN StringUpTo(SubSeq(s, 3, Len(s)), Append(acc, BS))
    ELSE IF s[2] = "f" THEN StringUpTo(SubSeq(s, 3, Len(s)), Append(acc, FF))
    ELSE IF s[2] = "n" THEN StringUpTo(SubSeq(s, 3, Len(s)), Append(acc, LF))
    ELSE IF s[2] = "r" THEN StringUpTo(SubSeq(s, 3, Len(s)), Append(acc, CR))
    ELSE IF s[2] = "t" THEN StringUpTo(SubSeq(s, 3, Len(s)), Append(acc, TAB))
    ELSE IF s[2] = "u" /\ HasHex4(SubSeq(s, 3, Len(s)))
         THEN UnicodeEscape(s, Hex4(SubSeq(s, 3, 6)), acc)
    ELSE JsonFail

\* The index of the first character of s that ends a run of plain
\* characters: a quote, a backslash or a control; Len(s) + 1 when none does.
StringStops == {"\"", "\\"} \cup ControlChars
PlainRun(s) ==
    IF \E i \in 1..Len(s) : s[i] \in StringStops
    THEN CHOOSE i \in 1..Len(s) :
             s[i] \in StringStops /\ \A j \in 1..(i - 1) : s[j] \notin StringStops
    ELSE Len(s) + 1

\* The literal from the end p of its run of plain characters on.
StringFrom(s, p, acc) ==
    IF p > Len(s) THEN JsonFail
    ELSE IF s[p] = "\"" THEN JsonOk(acc \o SubSeq(s, 1, p - 1), SubSeq(s, p + 1, Len(s)))
    ELSE IF s[p] = "\\" THEN Escape(SubSeq(s, p, Len(s)), acc \o SubSeq(s, 1, p - 1))
    ELSE JsonFail

StringUpTo(s, acc) == StringFrom(s, PlainRun(s), acc)

\* A string literal at the head of s.
ParseJsonString(s) ==
    IF Len(s) = 0 \/ s[1] # "\"" THEN JsonFail
    ELSE StringUpTo(Tail(s), <<>>)

StrValue(r) ==
    IF r.ok THEN JsonOk(<<"str", r.val>>, r.rest) ELSE JsonFail

\* ParserNumber::U64, ParserNumber::I64 and ParserNumber::F64 at the end of a
\* number, rest being the text after it. The f64 of a zero significand is
\* zero whatever the exponent. (An f64 is held as the parts it is made of,
\* not as the binary value they round to: two texts of one f64 may be held
\* as different parts.)
U64Value(significand, rest) == JsonOk(<<"num", significand>>, rest)
I64Value(significand, rest) == JsonOk(<<"i64", significand>>, rest)
F64Value(positive, significand, exponent, rest) ==
    JsonOk(<<"f64", <<positive, significand,
                      IF significand = <<"0">> THEN 0 ELSE exponent>>>>, rest)

\* significand * 10 + digit, and the test overflow!(significand * 10 + digit,
\* u64::MAX).
TimesTenPlus(significand, digit) ==
    IF significand = <<"0">> THEN <<digit>> ELSE Append(significand, digit)
Overflows(significand, digit) == ~AtMost(TimesTenPlus(significand, digit), U64_MAX)

\* s without the digits it starts with.
SkipDigits(s) == SubSeq(s, DigitRun(s) + 1, Len(s))

IsExponentMark(s) == Len(s) > 0 /\ s[1] \in {"e", "E"}

\* i32::saturating_add and i32::saturating_sub of an exponent read, which is
\* not negative.
saturating_add(a, b) == IF a > 0 /\ b > I32_MAX - a THEN I32_MAX ELSE a + b
saturating_sub(a, b) == IF a < 0 /\ b > a - I32_MIN THEN I32_MIN ELSE a - b

\* f64_from_parts: the significand as an f64 is multiplied by the power of
\* ten of the exponent, or divided by that of a negative one. A product that
\* is infinite, and an exponent beyond POW10 with a significand that is not
\* zero, is the error "number out of range"; a division never fails.
f64_from_parts(s, positive, significand, exponent) ==
    IF /\ significand # <<"0">>
       /\ \/ exponent > POW10_LAST
          \/ /\ exponent > POW10_LAST - Len(LargestFinite)
             /\ ~AtMost(significand, LargestFinite[exponent - (POW10_LAST - Len(LargestFinite))])
    THEN JsonFail
    ELSE F64Value(positive, significand, exponent, s)

\* parse_exponent_overflow: the exponent does not fit an i32. The number is
\* out of range, or is zero, the digits left of the exponent being skipped.
parse_exponent_overflow(s, positive, zero_significand, positive_exp) ==
    IF ~zero_significand /\ positive_exp THEN JsonFail
    ELSE F64Value(positive, <<"0">>, 0, SkipDigits(s))

\* The loop of parse_exponent over the digits after the first, exp being
\* the exponent read so far: up to the digit that takes it beyond i32::MAX,
\* which is eaten. (The zeros that follow an exponent of zero, which leave it
\* zero, are taken in one step.)
RECURSIVE ExponentDigits(_, _)
ExponentDigits(s, exp) ==
    IF Len(s) = 0 \/ s[1] \notin Digits
    THEN [overflow |-> FALSE, exp |-> exp, rest |-> s]
    ELSE IF exp = 0 /\ s[1] = "0" THEN ExponentDigits(TrimStartMatches(s, {"0"}), exp)
    ELSE IF /\ exp >= I32_MAX \div 10
            /\ (exp > I32_MAX \div 10 \/ DigitValue(s[1]) > I32_MAX % 10)
         THEN [overflow |-> TRUE, exp |-> exp, rest |-> Tail(s)]
    ELSE ExponentDigits(Tail(s), exp * 10 + DigitValue(s[1]))

ExponentRead(e, positive_exp, positive, significand, starting_exp) ==
    IF e.overflow
    THEN parse_exponent_overflow(e.rest, positive, significand = <<"0">>, positive_exp)
    ELSE f64_from_parts(e.rest, positive, significand,
                        IF positive_exp THEN saturating_add(starting_exp, e.exp)
                        ELSE saturating_sub(starting_exp, e.exp))

\* parse_exponent after the sign: a digit must follow.
ExponentSigned(s, positive_exp, positive, significand, starting_exp) ==
    IF Len(s) = 0 \/ s[1] \notin Digits THEN JsonFail
    ELSE ExponentRead(ExponentDigits(Tail(s), DigitValue(s[1])),
                      positive_exp, positive, significand, starting_exp)

\* parse_exponent, s standing at the e or E.
parse_exponent(s, positive, significand, starting_exp) ==
    IF Len(s) > 1 /\ s[2] \in {"+", "-"}
    THEN ExponentSigned(SubSeq(s, 3, Len(s)), s[2] = "+", positive, significand,
                        starting_exp)
    ELSE ExponentSigned(Tail(s), TRUE, positive, significand, starting_exp)

\* The end of a number read as an f64: an exponent part, or nothing more.
NumberEnd(s, positive, significand, exponent) ==
    IF IsExponentMark(s) THEN parse_exponent(s, positive, significand, exponent)
    ELSE f64_from_parts(s, positive, significand, exponent)

\* parse_decimal_overflow: the digits the significand has no room for are
\* ignored.
parse_decimal_overflow(s, positive, significand, exponent) ==
    NumberEnd(SkipDigits(s), positive, significand, exponent)

\* The loop of parse_decimal over the digits after the point: each digit the
\* significand has room for is taken into it and lowers the exponent. (The
\* zeros a zero significand is followed by, which leave it zero, are taken
\* in one step.)
RECURSIVE FractionDigits(_, _, _)
FractionDigits(s, significand, exponent_after_decimal_point) ==
    IF Len(s) = 0 \/ s[1] \notin Digits \/ Overflows(significand, s[1])
    THEN [significand |-> significand, exponent |-> exponent_after_decimal_point,
          rest |-> s]
    ELSE IF significand = <<"0">> /\ s[1] = "0"
         THEN FractionDigits(TrimStartMatches(s, {"0"}), significand,
                             exponent_after_decimal_point
                                 - (FirstOutside(s, {"0"}) - 1))
    ELSE FractionDigits(Tail(s), TimesTenPlus(significand, s[1]),
                        exponent_after_decimal_point - 1)

\* parse_decimal after its loop, which a digit without room ends in
\* parse_decimal_overflow: else at least one digit must have followed the
\* point.
AfterFraction(d, positive, exponent_before_decimal_point) ==
    IF Len(d.rest) > 0 /\ d.rest[1] \in Digits
    THEN parse_decimal_overflow(d.rest, positive, d.significand,
                                exponent_before_decimal_point + d.exponent)
    ELSE IF d.exponent = 0 THEN JsonFail
    ELSE NumberEnd(d.rest, positive, d.significand,
                   exponent_before_decimal_point + d.exponent)

\* parse_decimal, s standing at the point.
parse_decimal(s, positive, significand, exponent_before_decimal_point) ==
    AfterFraction(FractionDigits(Tail(s), significand, 0), positive,
                  exponent_before_decimal_point)

\* parse_number: what follows the digits of an integer that fits a u64. With
\* no fraction and no exponent the number is a u64, a negative i64, or the
\* f64 of -0 and of a negative number below i64::MIN.
parse_number(s, positive, significand) ==
    IF Len(s) > 0 /\ s[1] = "." THEN parse_decimal(s, positive, significand, 0)
    ELSE IF IsExponentMark(s) THEN parse_exponent(s, positive, significand, 0)
    ELSE IF positive THEN U64Value(significand, s)
    ELSE IF significand = <<"0">> \/ ~AtMost(significand, I64_MIN_MAGNITUDE)
         THEN F64Value(FALSE, significand, 0, s)
    ELSE I64Value(significand, s)

\* parse_long_integer, s standing at the first digit the significand has no
\* room for: that digit and those after it are dropped, each raising the
\* exponent by one.
parse_long_integer(s, positive, significand) ==
    IF Len(SkipDigits(s)) > 0 /\ SkipDigits(s)[1] = "."
    THEN parse_decimal(SkipDigits(s), positive, significand, DigitRun(s))
    ELSE NumberEnd(SkipDigits(s), positive, significand, DigitRun(s))

\* The loop of parse_integer over the digits after the first.
RECURSIVE IntegerDigits(_, _, _)
IntegerDigits(s, positive, significand) ==
    IF Len(s) = 0 \/ s[1] \notin Digits THEN parse_number(s, positive, significand)
    ELSE IF Overflows(significand, s[1]) THEN parse_long_integer(s, positive, significand)
    ELSE IntegerDigits(Tail(s), positive, TimesTenPlus(significand, s[1]))

\* parse_integer, s standing after the sign: a digit must come first, and no
\* digit may follow a leading zero.
parse_integer(s, positive) ==
    IF Len(s) = 0 \/ s[1] \notin Digits THEN JsonFail
    ELSE IF s[1] # "0" THEN IntegerDigits(Tail(s), positive, <<s[1]>>)
    ELSE IF Len(s) > 1 /\ s[2] \in Digits THEN JsonFail
    ELSE parse_number(Tail(s), positive, <<"0">>)

LitValue(s, lit) == JsonOk(<<"lit", lit>>, SubSeq(s, Len(lit) + 1, Len(s)))

\* serde_json's Map of the members of an object: of the members of one key
\* the last is kept.
MapOf(members) ==
    {members[i] : i \in {j \in 1..Len(members) :
        \A k \in (j + 1)..Len(members) : members[k][1] # members[j][1]}}

ObjValue(r) == IF r.ok THEN JsonOk(<<"obj", MapOf(r.val)>>, r.rest) ELSE JsonFail
ArrValue(r) == IF r.ok THEN JsonOk(<<"arr", r.val>>, r.rest) ELSE JsonFail

\* deserialize_any: the value at the head of s, depth being remaining_depth.
RECURSIVE ParseJsonValue(_, _)

\* The members of an object, s standing at the first key: <<key, value>>
\* pairs in the order of the text.
RECURSIVE ParseMembers(_, _, _)

\* After a member: the object ends, or another member follows a comma.
MemberNext(b, members, depth) ==
    IF Len(b) = 0 THEN JsonFail
    ELSE IF b[1] = "}" THEN JsonOk(members, Tail(b))
    ELSE IF b[1] = "," THEN ParseMembers(Tail(b), members, depth)
    ELSE JsonFail

MemberValue(key, v, members, depth) ==
    IF ~v.ok THEN JsonFail
    ELSE MemberNext(SkipWs(v.rest), Append(members, <<key, v.val>>), depth)

MemberColon(key, a, members, depth) ==
    IF Len(a) = 0 \/ a[1] # COLON THEN JsonFail
    ELSE MemberValue(key, ParseJsonValue(SkipWs(Tail(a)), depth), members, depth)

MemberKey(k, members, depth) ==
    IF ~k.ok THEN JsonFail
    ELSE MemberColon(k.val, SkipWs(k.rest), members, depth)

ParseMembers(s, members, depth) ==
    MemberKey(ParseJsonString(SkipWs(s)), members, depth)

ObjectBody(b, depth) ==
    IF Len(b) > 0 /\ b[1] = "}" THEN JsonOk(<<>>, Tail(b))
    ELSE ParseMembers(b, <<>>, depth)

\* deserialize_map: an object at the head of a, one level deeper; at the
\* last level the recursion limit is exceeded.
ObjectAt(a, depth) ==
    IF Len(a) = 0 \/ a[1] # "{" \/ depth = 1 THEN JsonFail
    ELSE ObjectBody(SkipWs(Tail(a)), depth - 1)

\* A struct of the program at the head of s: the members of an object.
ParseJsonObject(s) == ObjectAt(SkipWs(s), RecursionLimit)

\* The elements of an array, s standing at the first element: structs of the
\* program, or any values.
RECURSIVE ParseElements(_, _, _, _)

ElementNext(b, elements, depth, structs) ==
    IF Len(b) = 0 THEN JsonFail
    ELSE IF b[1] = "]" THEN JsonOk(elements, Tail(b))
    ELSE IF b[1] = "," THEN ParseElements(Tail(b), elements, depth, structs)
    ELSE JsonFail

ElementValue(e, elements, depth, structs) ==
    IF ~e.ok THEN JsonFail
    ELSE ElementNext(SkipWs(e.rest), Append(elements, e.val), depth, structs)

ParseElements(s, elements, depth, structs) ==
    ElementValue(IF structs THEN ObjectAt(SkipWs(s), depth)
                 ELSE ParseJsonValue(SkipWs(s), depth),
                 elements, depth, structs)

ArrayBody(b, depth, structs) ==
    IF Len(b) > 0 /\ b[1] = "]" THEN JsonOk(<<>>, Tail(b))
    ELSE ParseElements(b, <<>>, depth, structs)

\* deserialize_seq: an array at the head of a, one level deeper.
ArrayAt(a, depth, structs) ==
    IF Len(a) = 0 \/ a[1] # "[" \/ depth = 1 THEN JsonFail
    ELSE ArrayBody(SkipWs(Tail(a)), depth - 1, structs)

\* A Vec of structs of the program at the head of s.
ParseJsonArray(s) == ArrayAt(SkipWs(s), RecursionLimit, TRUE)

ParseJsonValue(s, depth) ==
    IF Len(s) = 0 THEN JsonFail
    ELSE IF s[1] = "\"" THEN StrValue(ParseJsonString(s))
    ELSE IF s[1] = "-" THEN parse_integer(Tail(s), FALSE)
    ELSE IF s[1] \in Digits THEN parse_integer(s, TRUE)
    ELSE IF s[1] = "{" THEN ObjValue(ObjectAt(s, depth))
    ELSE IF s[1] = "[" THEN ArrValue(ArrayAt(s, depth, FALSE))
    ELSE IF HasPrefix(s, S_null) THEN LitValue(s, S_null)
    ELSE IF HasPrefix(s, S_true) THEN LitValue(s, S_true)
    ELSE IF HasPrefix(s, S_false) THEN LitValue(s, S_false)
    ELSE JsonFail

\* serde_json::from_str: only whitespace may follow the value.
Complete(r) == IF r.ok /\ SkipWs(r.rest) = <<>> THEN Some(r.val) ELSE None

\* The values of the members named key, in the order of the text.
RECURSIVE ValuesOf(_, _)
ValuesOf(members, key) ==
    IF Len(members) = 0 THEN <<>>
    ELSE IF members[1][1] = key THEN <<members[1][2]>> \o ValuesOf(Tail(members), key)
    ELSE ValuesOf(Tail(members), key)

\* #[serde(flatten)] extra: the members no field claims, the last one of a
\* repeated key winning.
Extras(members, fields) ==
    {members[i] : i \in {j \in 1..Len(members) :
        /\ members[j][1] \notin fields
        /\ \A k \in (j + 1)..Len(members) : members[k][1] # members[j][1]}}

FieldOk(v) == [ok |-> TRUE, val |-> v]
FieldErr == [ok |-> FALSE, val |-> None]

\* An Option<String> field, vs being the values given for it: absent or
\* null is None, a string is Some; any other value, and a repeated field, is
\* an error.
OptString(vs) ==
    IF Len(vs) = 0 THEN FieldOk(None)
    ELSE IF Len(vs) > 1 THEN FieldErr
    ELSE IF vs[1] = <<"lit", S_null>> THEN FieldOk(None)
    ELSE IF vs[1][1] = "str" THEN FieldOk(Some(vs[1][2]))
    ELSE FieldErr

\* The u32 field `type`: required, given once, an integer of at most
\* 4294967295.
ActionType(vs) ==
    IF Len(vs) = 1 /\ vs[1][1] = "num" /\ AtMost(vs[1][2], U32_MAX)
    THEN FieldOk(vs[1][2])
    ELSE FieldErr

DevActionWith(action_type, extra) ==
    IF ~action_type.ok THEN None
    ELSE Some([action_type |-> action_type.val, extra |-> extra])

\* DevAction (lines 19-23) from the members of an object.
DevActionOf(members) ==
    DevActionWith(ActionType(ValuesOf(members, S_type)), Extras(members, {S_type}))

DevSourceWith(title, url, extra) ==
    IF ~title.ok \/ ~url.ok THEN None
    ELSE Some([title |-> title.val, url |-> url.val, extra |-> extra])

\* DevSource (lines 26-31) from the members of an object.
DevSourceOf(members) ==
    DevSourceWith(OptString(ValuesOf(members, S_title)),
                  OptString(ValuesOf(members, S_url)),
                  Extras(members, {S_title, S_url}))

DevGithubSourceWith(repo, file_path, extra) ==
    IF ~repo.ok \/ ~file_path.ok THEN None
    ELSE Some([repo |-> repo.val, file_path |-> file_path.val, extra |-> extra])

\* DevGithubSource (lines 34-40) from the members of an object.
DevGithubSourceOf(members) ==
    DevGithubSourceWith(OptString(ValuesOf(members, S_repo)),
                        OptString(ValuesOf(members, S_filePath)),
                        Extras(members, {S_repo, S_filePath}))

\* Vec<T>: every element must deserialize; parsed holds Option<T> per element.
AllSome(parsed) ==
    IF \E i \in 1..Len(parsed) : parsed[i] = None THEN None
    ELSE Some([i \in 1..Len(parsed) |-> parsed[i][1]])

ActionOfDoc(doc) == IF doc = None THEN None ELSE DevActionOf(doc[1])

SourcesOfDoc(doc) ==
    IF doc = None THEN None
    ELSE AllSome([i \in 1..Len(doc[1]) |-> DevSourceOf(doc[1][i])])

GithubSourcesOfDoc(doc) ==
    IF doc = None THEN None
    ELSE AllSome([i \in 1..Len(doc[1]) |-> DevGithubSourceOf(doc[1][i])])

\* safe_json_parse::<DevAction>(data)
safe_json_parse_DevAction(data) == ActionOfDoc(Complete(ParseJsonObject(data)))

\* safe_json_parse::<Vec<DevSource>>(data)
safe_json_parse_DevSources(data) == SourcesOfDoc(Complete(ParseJsonArray(data)))

\* safe_json_parse::<Vec<DevGithubSource>>(data)
safe_json_parse_DevGithubSources(data) ==
    GithubSourcesOfDoc(Complete(ParseJsonArray(data)))

-----------------------------------------------------------------------------
(* The accumulator and the chunks                                          *)

\* SseAccumulator::default()
DefaultAccumulator ==
    [text |-> <<>>,
     actions |-> <<>>,
     sources |-> <<>>,
     github_sources |-> <<>>,
     related_questions |-> <<>>,
     related_questions_raw |-> <<>>,
     thread_id |-> None,
     query_message_id |-> None,
     answer_message_id |-> None,
     thread_title |-> None,
     reasoning |-> None,
     is_finished |-> FALSE,
     error |-> None]

\* Iterator::filter(|q| !q.is_empty()) over a list of strings.
RECURSIVE NonEmpty(_)
NonEmpty(list) ==
    IF Len(list) = 0 THEN <<>>
    ELSE IF Len(list[1]) = 0 THEN NonEmpty(Tail(list))
    ELSE <<list[1]>> \o NonEmpty(Tail(list))

\* SseAccumulator::update_related_questions
TrimAll(pieces) == [i \in 1..Len(pieces) |-> Trim(pieces[i])]

\* Lines 70-77 without the filter of line 74.
update_related_questions_Unfiltered(acc) ==
    [acc EXCEPT !.related_questions = TrimAll(Split(acc.related_questions_raw, LF))]

update_related_questions(acc) ==
    [acc EXCEPT !.related_questions =
        NonEmpty(TrimAll(Split(acc.related_questions_raw, LF)))]

\* The seconds the system clock may show during a request.
Clock == {1793439599, 1793439600}

\* SystemTime::now().duration_since(UNIX_EPOCH).unwrap().as_secs(), lines 444,
\* 463 and 480: whatever the clock shows when the chunk is built.
SystemTimeNow == now

\* Time passes between two steps. The requests modelled are those during
\* which the wall clock is not set back.
Tick == now' \in {t \in Clock : t >= now}

\* A content chunk whose delta carries the content twice.
create_content_chunk_Doubled(id, model, content) ==
    [id |-> id,
     object |-> S_chunk_object,
     created |-> SystemTimeNow,
     model |-> model,
     choices |-> <<[index |-> 0,
                    delta |-> [role |-> Some(S_assistant),
                               content |-> Some(content \o content)],
                    finish_reason |-> None]>>]

create_content_chunk(id, model, content) ==
    [id |-> id,
     object |-> S_chunk_object,
     created |-> SystemTimeNow,
     model |-> model,
     choices |-> <<[index |-> 0,
                    delta |-> [role |-> Some(S_assistant), content |-> Some(content)],
                    finish_reason |-> None]>>]

create_final_chunk(id, model, finish_reason) ==
    [id |-> id,
     object |-> S_chunk_object,
     created |-> SystemTimeNow,
     model |-> model,
     choices |-> <<[index |-> 0,
                    delta |-> [role |-> None, content |-> None],
                    finish_reason |-> Some(finish_reason)]>>]

create_error_chunk(id, model, error_message) ==
    [id |-> id,
     object |-> S_chunk_object,
     created |-> SystemTimeNow,
     model |-> model,
     choices |-> <<[index |-> 0,
                    delta |-> [role |-> Some(S_assistant),
                               content |-> Some(S_stream_error_prefix \o error_message)],
                    finish_reason |-> Some(S_stop)]>>]

-----------------------------------------------------------------------------
(* process_single_dev_event: the accumulator after the event and the chunk *)
(* returned (None or Some).                                                *)

\* A return that marks the accumulator finished whatever the event.
DispatchedFinishing(acc, chunk) ==
    [accumulator |-> [acc EXCEPT !.is_finished = TRUE], chunk |-> chunk]

\* A return that never carries a chunk.
DispatchedChunkless(acc, chunk) == [accumulator |-> acc, chunk |-> None]

\* The same with the finished flag cleared by every call.
DispatchedUnfinished(acc, chunk) ==
    [accumulator |-> [acc EXCEPT !.is_finished = FALSE], chunk |-> chunk]

Dispatched(acc, chunk) == [accumulator |-> acc, chunk |-> chunk]

\* The arms of lines 365-394: a parsed value is stored, a failed parse leaves
\* the accumulator as it is; neither returns a chunk.
\* Line 371 storing a default action when the parse fails.
OnActionStoringDefault(accumulator, parsed) ==
    IF parsed # None
    THEN Dispatched([accumulator EXCEPT !.actions = Append(@, parsed[1])], None)
    ELSE Dispatched([accumulator EXCEPT
                        !.actions = Append(@, [action_type |-> <<"0">>, extra |-> {}])],
                    None)

OnAction(accumulator, parsed) ==
    IF parsed # None
    THEN Dispatched([accumulator EXCEPT !.actions = Append(@, parsed[1])], None)
    ELSE Dispatched(accumulator, None)

\* The same with a failed parse emptying the list.
OnSourcesClearing(accumulator, parsed) ==
    IF parsed # None
    THEN Dispatched([accumulator EXCEPT !.sources = parsed[1]], None)
    ELSE Dispatched([accumulator EXCEPT !.sources = <<>>], None)

OnSources(accumulator, parsed) ==
    IF parsed # None
    THEN Dispatched([accumulator EXCEPT !.sources = parsed[1]], None)
    ELSE Dispatched(accumulator, None)

OnRepoSources(accumulator, parsed) ==
    IF parsed # None
    THEN Dispatched([accumulator EXCEPT !.github_sources = parsed[1]], None)
    ELSE Dispatched(accumulator, None)

\* Option<String>::get_or_insert_with(String::new).push_str(data)
PushReasoning(reasoning, data) ==
    Some((IF reasoning = None THEN <<>> ELSE reasoning[1]) \o data)

process_single_dev_event(accumulator, event_name, data, request_id, model_name) ==
    IF event_name \in {S_message, S_content, S_c} THEN
        IF Len(data) = 0 THEN Dispatched(accumulator, None)
        ELSE Dispatched([accumulator EXCEPT !.text = @ \o data],
                        Some(create_content_chunk(request_id, model_name, data)))
    ELSE IF event_name = S_action THEN
        OnAction(accumulator, safe_json_parse_DevAction(data))
    ELSE IF event_name = S_sources THEN
        OnSources(accumulator, safe_json_parse_DevSources(data))
    ELSE IF event_name = S_repoSources THEN
        OnRepoSources(accumulator, safe_json_parse_DevGithubSources(data))
    ELSE IF event_name \in {S_rlq, S_q} THEN
        IF Len(data) # 0
        THEN Dispatched([accumulator EXCEPT
                            !.related_questions_raw = @ \o <<LF>> \o Trim(data)], None)
        ELSE Dispatched(accumulator, None)
    ELSE IF event_name = S_r THEN
        Dispatched([accumulator EXCEPT !.reasoning = PushReasoning(@, data)], None)
    ELSE IF event_name = S_threadId THEN
        Dispatched([accumulator EXCEPT !.thread_id = Some(data)], None)
    ELSE IF event_name = S_queryMessageId THEN
        Dispatched([accumulator EXCEPT !.query_message_id = Some(data)], None)
    ELSE IF event_name = S_answerMessageId THEN
        Dispatched([accumulator EXCEPT !.answer_message_id = Some(data)], None)
    ELSE IF event_name = S_threadTitle THEN
        Dispatched([accumulator EXCEPT !.thread_title = Some(data)], None)
    ELSE IF event_name = S_error THEN
        Dispatched([accumulator EXCEPT !.error = Some(data), !.is_finished = TRUE],
                   Some(create_error_chunk(request_id, model_name, data)))
    ELSE IF event_name = S_finish THEN Dispatched(accumulator, None)
    ELSE Dispatched(accumulator, None)

-----------------------------------------------------------------------------
(* process_dev_bytes_stream_unfold                                         *)

\* An item of the output stream: Result<ChatCompletionChunk>.
Ok(chunk) == [tag |-> "Ok", chunk |-> Some(chunk)]
Err == [tag |-> "Err", chunk |-> None]

\* initial_state with line 162 giving the fallback name whatever the request
\* names.
InitialStateUnnamed(model, request_id) ==
    [decoder_buffer |-> <<>>,
     accumulator |-> DefaultAccumulator,
     current_event_name |-> S_message,
     current_data_buffer |-> <<>>,
     model_name |-> S_unknown_dev_model,
     request_id |-> request_id,
     final_chunk_sent |-> FALSE]

\* initial_state (lines 162 and 177-187); model is options.model.
InitialState(model, request_id) ==
    [decoder_buffer |-> <<>>,
     accumulator |-> DefaultAccumulator,
     current_event_name |-> S_message,
     current_data_buffer |-> <<>>,
     model_name |-> IF model = None THEN S_unknown_dev_model ELSE model[1],
     request_id |-> request_id,
     final_chunk_sent |-> FALSE]

\* What a run of the driver between two suspensions gives: the state, the
\* item it yields (None when it yields nothing) and the events it dispatched.
Step(st, item, dispatched) == [state |-> st, item |-> item, dispatched |-> dispatched]

\* The while loop of lines 201-232 and the yield of lines 235-237: complete
\* lines are taken off decoder_buffer until a dispatch returns a chunk or no
\* newline is left.
RECURSIVE ProcessBufferedLines(_, _)

\* Lines 211-223 with the event name left as it was.
AfterDispatchKeepingName(st, r, dispatched) ==
    IF r.chunk # None
    THEN Step([st EXCEPT !.current_data_buffer = <<>>,
                         !.accumulator = r.accumulator],
              Some(Ok(r.chunk[1])), dispatched)
    ELSE ProcessBufferedLines([st EXCEPT !.current_data_buffer = <<>>,
                                         !.accumulator = r.accumulator],
                              dispatched)

\* Lines 211-223 with the data buffer left as it was.
AfterDispatchKeepingData(st, r, dispatched) ==
    IF r.chunk # None
    THEN Step([st EXCEPT !.current_event_name = S_message,
                         !.accumulator = r.accumulator],
              Some(Ok(r.chunk[1])), dispatched)
    ELSE ProcessBufferedLines([st EXCEPT !.current_event_name = S_message,
                                         !.accumulator = r.accumulator],
                              dispatched)

\* Lines 211-223, r being what process_single_dev_event returned: the data
\* buffer is cleared and the event name reset; a chunk breaks the loop.
AfterDispatch(st, r, dispatched) ==
    IF r.chunk # None
    THEN Step([st EXCEPT !.current_data_buffer = <<>>,
                         !.current_event_name = S_message,
                         !.accumulator = r.accumulator],
              Some(Ok(r.chunk[1])), dispatched)
    ELSE ProcessBufferedLines([st EXCEPT !.current_data_buffer = <<>>,
                                         !.current_event_name = S_message,
                                         !.accumulator = r.accumulator],
                              dispatched)

\* Lines 209-220: the buffered event is dispatched.
DispatchBuffered(st, event_name, data, dispatched) ==
    AfterDispatch(st,
                  process_single_dev_event(st.accumulator, event_name, data,
                                           st.request_id, st.model_name),
                  Append(dispatched, <<event_name, data, "line">>))

\* The match of lines 206-231 on one parsed line; st has the line drained.
ProcessLine(st, parsed, dispatched) ==
    IF parsed.tag = "Empty" THEN
        IF Len(st.current_data_buffer) # 0
        THEN DispatchBuffered(st, st.current_event_name,
                              Join(st.current_data_buffer, <<LF>>), dispatched)
        ELSE ProcessBufferedLines([st EXCEPT !.current_event_name = S_message],
                                  dispatched)
    ELSE IF parsed.tag = "Event" THEN
        ProcessBufferedLines([st EXCEPT !.current_event_name = parsed.value],
                             dispatched)
    ELSE IF parsed.tag = "Data" THEN
        ProcessBufferedLines([st EXCEPT !.current_data_buffer = Append(@, parsed.value)],
                             dispatched)
    ELSE ProcessBufferedLines(st, dispatched)

\* Lines 202-203: the line up to newline_pos is drained and trimmed.
TakeLine(st, newline_pos, dispatched) ==
    ProcessLine([st EXCEPT !.decoder_buffer = SubSeq(@, newline_pos + 1, Len(@))],
                parse_sse_line(TrimEndMatches(SubSeq(st.decoder_buffer, 1, newline_pos),
                                              {LF, CR})),
                dispatched)

ProcessBufferedLines(st, dispatched) ==
    IF Find(st.decoder_buffer, LF) = 0 THEN Step(st, None, dispatched)
    ELSE TakeLine(st, Find(st.decoder_buffer, LF), dispatched)

\* Lines 241-250 with the batch put in front of the buffered text.
PushBytesInFront(st, bytes) ==
    [st EXCEPT !.decoder_buffer = DecodeBatch(bytes) \o @]

\* Some(Ok(bytes)), lines 241-250: the batch is decoded onto decoder_buffer.
PushBytes(st, bytes) ==
    [st EXCEPT !.decoder_buffer = @ \o DecodeBatch(bytes)]

\* Lines 251-255 without line 253: the terminal flag is not set.
OnTransportErrorNoFlag(st) == Step(st, Some(Err), <<>>)

\* Lines 251-255 handled as a clean end: the accumulator is finished and
\* the final chunk yielded.
OnTransportErrorAsEof(st) ==
    Step([st EXCEPT !.final_chunk_sent = TRUE, !.accumulator.is_finished = TRUE],
         Some(Ok(create_final_chunk(st.request_id, st.model_name, S_stop))), <<>>)

\* Some(Err(e)), lines 251-255.
OnTransportError(st) ==
    Step([st EXCEPT !.final_chunk_sent = TRUE], Some(Err), <<>>)

\* The for loop of lines 267-282 over the pieces of the residual buffer.
RECURSIVE ResidualLines(_, _, _)

\* The match of lines 275-281 on one residual line.
ResidualLine(st, parsed, lines, i) ==
    IF parsed.tag = "Event" THEN
        ResidualLines([st EXCEPT !.current_event_name = parsed.value], lines, i + 1)
    ELSE IF parsed.tag = "Data" THEN
        ResidualLines([st EXCEPT !.current_data_buffer = Append(@, parsed.value)],
                      lines, i + 1)
    ELSE ResidualLines(st, lines, i + 1)

\* Lines 269-273: the piece is trimmed of its trailing CRs; an empty last
\* piece is skipped.
ResidualPiece(st, trimmed_line, lines, i) ==
    IF Len(trimmed_line) = 0 /\ i = Len(lines)
    THEN ResidualLines(st, lines, i + 1)
    ELSE ResidualLine(st, parse_sse_line(trimmed_line), lines, i)

ResidualLines(st, lines, i) ==
    IF i > Len(lines) THEN st
    ELSE ResidualPiece(st, TrimEndMatches(lines[i], {CR}), lines, i)

\* Lines 294-303: the chunk the dispatch returns is dropped; the data buffer
\* and the event name are left as they are, decoder_buffer is cleared.
AfterResidualDispatch(st, r, dispatched) ==
    Step([st EXCEPT !.accumulator = r.accumulator, !.decoder_buffer = <<>>],
         None, dispatched)

\* Lines 284-303, st being the state after the for loop.
DispatchResidual(st) ==
    IF Len(st.current_data_buffer) # 0
    THEN AfterResidualDispatch(
             st,
             process_single_dev_event(st.accumulator, st.current_event_name,
                                      Join(st.current_data_buffer, <<LF>>),
                                      st.request_id, st.model_name),
             <<<<st.current_event_name, Join(st.current_data_buffer, <<LF>>),
                 "residual">>>>)
    ELSE Step([st EXCEPT !.decoder_buffer = <<>>], None, <<>>)

\* Lines 263-306: the residual flush.
ResidualFlush(st) ==
    IF Len(st.decoder_buffer) # 0
    THEN DispatchResidual(ResidualLines(st, Split(st.decoder_buffer, LF), 1))
    ELSE Step(st, None, <<>>)

\* Line 317 without line 319.
FinishAccumulatorOnly(acc) == [acc EXCEPT !.is_finished = TRUE]

\* Lines 317-319.
FinishAccumulator(acc) ==
    update_related_questions([acc EXCEPT !.is_finished = TRUE])

\* Lines 309-326 without the test of line 315: the final chunk is yielded
\* whether or not the accumulator was finished.
FinalActionUnconditional(st, dispatched) ==
    Step([st EXCEPT !.final_chunk_sent = TRUE,
                    !.accumulator = FinishAccumulator(@)],
         Some(Ok(create_final_chunk(st.request_id, st.model_name, S_stop))),
         dispatched)

\* Lines 309-334: the final chunk, or the end of the stream without one.
\* item = None stands for the `return None` of line 333.
FinalAction(st, dispatched) ==
    IF ~st.accumulator.is_finished
    THEN Step([st EXCEPT !.final_chunk_sent = TRUE,
                         !.accumulator = FinishAccumulator(@)],
              Some(Ok(create_final_chunk(st.request_id, st.model_name, S_stop))),
              dispatched)
    ELSE Step([st EXCEPT !.final_chunk_sent = TRUE], None, dispatched)

AfterFlush(flushed) == FinalAction(flushed.state, flushed.dispatched)

\* The chunk the residual dispatch of lines 294-300 returns, st being the
\* state after the for loop.
ResidualChunk(st) ==
    IF Len(st.current_data_buffer) # 0
    THEN process_single_dev_event(st.accumulator, st.current_event_name,
                                  Join(st.current_data_buffer, <<LF>>),
                                  st.request_id, st.model_name).chunk
    ELSE None

YieldResidual(flushed, chunk) ==
    IF chunk # None
    THEN Step(flushed.state, Some(Ok(chunk[1])), flushed.dispatched)
    ELSE FinalAction(flushed.state, flushed.dispatched)

\* Lines 256-335 with the chunk of the residual dispatch yielded instead of
\* dropped.
OnEofYieldingResidual(st) ==
    YieldResidual(ResidualFlush(st),
                  IF Len(st.decoder_buffer) # 0
                  THEN ResidualChunk(ResidualLines(st, Split(st.decoder_buffer, LF), 1))
                  ELSE None)

\* None from the byte stream, lines 256-335.
OnEof(st) == AfterFlush(ResidualFlush(st))

-----------------------------------------------------------------------------
(* The driver run to its end on one batch followed by EOF: repeated pulls  *)
(* of the unfold closure (lines 189-338).                                  *)

RECURSIVE PullBuffered(_, _)

\* A pull that yielded a chunk is followed by the next pull; one that found
\* no chunk awaits the upstream.
AfterPull(r, items) ==
    IF r.item # None THEN PullBuffered(r.state, Append(items, r.item[1]))
    ELSE [state |-> r.state, out |-> items]

PullBuffered(st, items) == AfterPull(ProcessBufferedLines(st, <<>>), items)

AfterEof(r, items) ==
    [state |-> r.state,
     out |-> IF r.item # None THEN Append(items, r.item[1]) ELSE items]

EofAfter(run) == AfterEof(OnEof(run.state), run.out)

\* The state and the items yielded when st receives bytes as one batch and
\* then EOF.
RunOneBatch(st, bytes) == EofAfter(PullBuffered(PushBytes(st, bytes), <<>>))

-----------------------------------------------------------------------------
(* The HTTP layer: chat_completions_handler of main.rs from the start of   *)
(* the SSE response on. It pulls the driver's stream, maps every item to   *)
(* an SSE event and chains the [DONE] event.                               *)

HexDigitChars ==
    <<"0", "1", "2", "3", "4", "5", "6", "7", "8", "9", "a", "b", "c", "d", "e", "f">>

\* The escape \u00XX of a control that has no short escape.
ControlEscape(cp) ==
    <<"\\", "u", "0", "0", HexDigitChars[(cp \div 16) + 1], HexDigitChars[(cp % 16) + 1]>>

\* serde_json's escaping of a character inside a string.
EscapeChar(c) ==
    IF c = "\"" THEN <<"\\", "\"">>
    ELSE IF c = "\\" THEN <<"\\", "\\">>
    ELSE IF c = LF THEN <<"\\", "n">>
    ELSE IF c = CR THEN <<"\\", "r">>
    ELSE IF c = TAB THEN <<"\\", "t">>
    ELSE IF c = FF THEN <<"\\", "f">>
    ELSE IF c = BS THEN <<"\\", "b">>
    ELSE IF c \in ControlChars
         THEN ControlEscape(CHOOSE cp \in OtherControls : c = CodePoint(cp))
    ELSE <<c>>

JsonStringOf(s) ==
    <<"\"">> \o Concat([i \in 1..Len(s) |-> EscapeChar(s[i])], 1, Len(s)) \o <<"\"">>

\* An Option<String> that is serialized: null or the string.
JsonOptionOf(opt) == IF opt = None THEN S_null ELSE JsonStringOf(opt[1])

\* Delta (lines 101-108): a field that is None is skipped.
DeltaJson(delta) ==
    <<"{">>
    \o (IF delta.role = None THEN <<>>
        ELSE <<"\"", "r", "o", "l", "e", "\"", ":">> \o JsonStringOf(delta.role[1]))
    \o (IF delta.role # None /\ delta.content # None THEN <<",">> ELSE <<>>)
    \o (IF delta.content = None THEN <<>>
        ELSE <<"\"", "c", "o", "n", "t", "e", "n", "t", "\"", ":">> \o JsonStringOf(delta.content[1]))
    \o <<"}">>

\* Choice (lines 93-99).
ChoiceJson(choice) ==
    <<"{", "\"", "i", "n", "d", "e", "x", "\"", ":", "0", ",", "\"", "d", "e", "l", "t", "a", "\"", ":">> \o DeltaJson(choice.delta)
    \o <<",", "\"", "f", "i", "n", "i", "s", "h", "_", "r", "e", "a", "s", "o", "n", "\"", ":">> \o JsonOptionOf(choice.finish_reason) \o <<"}">>

\* The decimal text of a u64, as serde_json writes it.
RECURSIVE DecimalOf(_)
DecimalOf(n) ==
    IF n < 10 THEN <<DigitChars[n + 1]>>
    ELSE DecimalOf(n \div 10) \o <<DigitChars[(n % 10) + 1]>>

\* serde_json::to_string(&chunk) (line 151).
to_string(chunk) ==
    <<"{", "\"", "i", "d", "\"", ":">> \o JsonStringOf(chunk.id)
    \o <<",", "\"", "o", "b", "j", "e", "c", "t", "\"", ":">> \o JsonStringOf(chunk.object)
    \o <<",", "\"", "c", "r", "e", "a", "t", "e", "d", "\"", ":">> \o DecimalOf(chunk.created)
    \o <<",", "\"", "m", "o", "d", "e", "l", "\"", ":">> \o JsonStringOf(chunk.model)
    \o <<",", "\"", "c", "h", "o", "i", "c", "e", "s", "\"", ":", "[">> \o ChoiceJson(chunk.choices[1]) \o <<"]", "}">>

\* The Display text of the transport error.
ErrorDisplay == <<"e", "r", "r">>

\* The closure of lines 147-166: a chunk becomes a data event with its JSON
\* text, an error result an `error` event.
SseEventOf(item) ==
    IF item.tag = "Ok"
    THEN [event |-> None, data |-> to_string(item.chunk[1])]
    ELSE [event |-> Some(S_error),
          data |-> <<"{", "\"", "e", "r", "r", "o", "r", "\"", ":", " ", "\"">> \o ErrorDisplay \o <<"\"", "}">>]

\* SseEvent::default().data("[DONE]"), lines 169-171.
DoneEvent == [event |-> None, data |-> <<"[", "D", "O", "N", "E", "]">>]

\* Line 175 without the chain: the response ends with the driver's stream.
ChainNothing(events) == events

\* chain(done_stream), line 175: when the mapped stream ends, the same poll
\* goes on to the once-stream, which gives the [DONE] event.
ChainDone(events) == Append(events, DoneEvent)

-----------------------------------------------------------------------------
(* The upstream and the consumer                                           *)

\* The most batches the upstream delivers before it ends.
MaxBatches == 4

\* The request id handed to the driver (utils::generate_uuidv4()).
REQUEST_ID == <<"i", "d", "-", "1">>

\* options.model of the request.
ModelOptions == {None, Some(<<"g", "p", "t">>)}

F_content == S_data \o <<COLON, SP, "a", LF, LF>>
F_error == S_event \o <<COLON, SP>> \o S_error \o <<LF>> \o S_data \o <<COLON, SP, "b">>
F_tail == S_event \o <<COLON, SP>> \o S_content \o <<LF>>
              \o S_data \o <<COLON, SP, "t", "a", "i", "l">>
F_newline == <<LF>>
F_crlf == <<CR, LF>>

\* The fragments of the main specification: a complete content event, an
\* error event and a content event that lack their line end, and line ends.
CoreFragments == {F_content, F_error, F_tail, F_newline, F_crlf}

\* The batches the upstream may deliver: a fragment, or no byte at all.
Batches == frags \cup {<<>>}

\* The handler as it is once the SSE response has started: a request with
\* one message and the model named, an upstream that answered 200, the
\* response status 200.
StreamStarted(model) ==
    [messages |-> << <<"h", "i">> >>, model |-> model,
     upstream |-> Some(<<"2", "0", "0">>), status |-> <<"2", "0", "0">>]

InitWith(fragments) ==
    /\ \E model \in ModelOptions :
         /\ state = InitialState(model, REQUEST_ID)
         /\ http = StreamStarted(model)
    /\ byte_stream = "open"
    /\ pc = "idle"
    /\ out = <<>>
    /\ fed = <<>>
    /\ log = <<>>
    /\ polls = 0
    /\ frags = fragments
    /\ sse = <<>>
    /\ now \in Clock

Init == InitWith(CoreFragments)

\* Lines 191-193 left out: the terminal flag is never looked at.
AlreadySentNever(st) == FALSE

\* The check of lines 191-193.
AlreadySent(st) == st.final_chunk_sent

\* The driver goes on after a run that did not end the stream: it yields the
\* item and suspends (line 236), or awaits byte_stream.next() (line 240).
Continue(r) ==
    /\ state' = r.state
    /\ log' = log \o r.dispatched
    /\ IF r.item # None
       THEN /\ out' = Append(out, r.item[1])
            /\ sse' = Append(sse, SseEventOf(r.item[1]))
            /\ pc' = "idle"
            /\ polls' = polls
       ELSE /\ out' = out
            /\ sse' = sse
            /\ pc' = "await"
            /\ polls' = polls + 1

\* The driver returns from handling the end of the upstream: it yields the
\* item (lines 254, 326) or ends the stream (line 333).
Finish(r) ==
    /\ state' = r.state
    /\ log' = log \o r.dispatched
    /\ IF r.item # None
       THEN /\ out' = Append(out, r.item[1])
            /\ sse' = Append(sse, SseEventOf(r.item[1]))
            /\ pc' = "idle"
       ELSE /\ out' = out
            /\ sse' = ChainDone(sse)
            /\ pc' = "ended"

\* The consumer pulls after the terminal flag was set: lines 191-193.
PullAfterFinal ==
    /\ pc = "idle"
    /\ AlreadySent(state)
    /\ pc' = "ended"
    /\ sse' = ChainDone(sse)
    /\ UNCHANGED <<state, byte_stream, out, fed, log, polls, frags, http>>
    /\ Tick

\* The consumer pulls: the buffered lines are processed first (lines 196-237).
Pull ==
    /\ pc = "idle"
    /\ ~AlreadySent(state)
    /\ Continue(ProcessBufferedLines(state, <<>>))
    /\ UNCHANGED <<byte_stream, fed, frags, http>>
    /\ Tick

\* byte_stream.next() resolves to Some(Ok(bytes)): lines 241-250, then the
\* loop runs again from line 196.
RecvBytes ==
    /\ pc = "await"
    /\ byte_stream = "open"
    /\ polls <= MaxBatches
    /\ \E bytes \in Batches :
        /\ fed' = fed \o bytes
        /\ Continue(ProcessBufferedLines(PushBytes(state, bytes), <<>>))
    /\ UNCHANGED <<byte_stream, frags, http>>
    /\ Tick

\* byte_stream.next() resolves to Some(Err(e)): lines 251-255.
RecvError ==
    /\ pc = "await"
    /\ byte_stream = "open"
    /\ byte_stream' = "err"
    /\ Finish(OnTransportError(state))
    /\ UNCHANGED <<fed, polls, frags, http>>
    /\ Tick

\* byte_stream.next() resolves to None: lines 256-335.
RecvEof ==
    /\ pc = "await"
    /\ byte_stream = "open"
    /\ byte_stream' = "eof"
    /\ Finish(OnEof(state))
    /\ UNCHANGED <<fed, polls, frags, http>>
    /\ Tick

Next == PullAfterFinal \/ Pull \/ RecvBytes \/ RecvError \/ RecvEof

Spec == Init /\ [][Next]_vars

\* The consumer keeps pulling: a pull that can run is run.
FairSpec == Spec /\ WF_vars(Pull) /\ WF_vars(PullAfterFinal)

\* The upstream sends a two-byte character whole or byte by byte.
F_data_prefix == S_data \o <<COLON, SP>>
F_lead == <<LEAD_C3>>
F_cont == <<CONT_A9>>
F_e_acute == <<LEAD_C3, CONT_A9>>
F_blank == <<LF, LF>>

Utf8Fragments == {F_data_prefix, F_lead, F_cont, F_e_acute, F_blank}

InitUtf8 == InitWith(Utf8Fragments)

SpecUtf8 == InitUtf8 /\ [][Next]_vars

\* The bytes of one blank-line-terminated event with an event line and one
\* data line.
EventBytes(name, data) ==
    S_event \o <<COLON, SP>> \o name \o <<LF>> \o S_data \o <<COLON, SP>> \o data
        \o <<LF, LF>>

\* JSON texts: {"type":"s"}, {"type":1} and {}.
J_type_string == <<"{", "\"", "t", "y", "p", "e", "\"", ":", "\"", "s", "\"", "}">>
J_type_1 == <<"{", "\"", "t", "y", "p", "e", "\"", ":", "1", "}">>
J_empty_object == <<"{", "}">>

\* {"type":1,"x":-1.5e2,"y":[{"k":null}]}: an action with two further
\* members, a negative number with a fraction and an exponent, and an array
\* that holds an object.
J_action_members ==
    <<"{", "\"", "t", "y", "p", "e", "\"", ":", "1", ",", "\"", "x", "\"", ":",
      "-", "1", ".", "5", "e", "2", ",", "\"", "y", "\"", ":", "[", "{", "\"",
      "k", "\"", ":", "n", "u", "l", "l", "}", "]", "}">>

\* [{"url":"u","n":1e400}]: a source with a member whose number no f64 holds.
J_sources_out_of_range ==
    <<"[", "{", "\"", "u", "r", "l", "\"", ":", "\"", "u", "\"", ",", "\"",
      "n", "\"", ":", "1", "e", "4", "0", "0", "}", "]">>

\* The upstream sends structured events whose data does not parse (an action
\* whose type is a string, sources with a number out of range, repoSources
\* that is an object), an action that parses, with members the struct does
\* not name, and a content event.
StructuredFragments ==
    {EventBytes(S_action, J_type_string),
     EventBytes(S_sources, J_sources_out_of_range),
     EventBytes(S_repoSources, J_empty_object),
     EventBytes(S_action, J_action_members),
     F_content}

InitStructured == InitWith(StructuredFragments)

SpecStructured == InitStructured /\ [][Next]_vars

\* The upstream sends related questions: one padded with spaces, a plain one,
\* one of three data lines the middle one empty, one of spaces only, one
\* that lacks its line end, and an `error` event.
F_rlq_padded == EventBytes(S_rlq, <<SP, "A", SP>>)
F_q_plain == EventBytes(S_q, <<"B">>)
F_rlq_lines ==
    S_event \o <<COLON, SP>> \o S_rlq \o <<LF>>
        \o S_data \o <<COLON, SP, "C", LF>>
        \o S_data \o <<COLON, LF>>
        \o S_data \o <<COLON, SP, SP, "D", LF, LF>>
F_rlq_spaces == EventBytes(S_rlq, <<SP, SP>>)
F_q_tail == S_event \o <<COLON, SP>> \o S_q \o <<LF>> \o S_data \o <<COLON, SP, "E">>
F_error_event == EventBytes(S_error, <<"b">>)

RelatedFragments ==
    {F_rlq_padded, F_q_plain, F_rlq_lines, F_rlq_spaces, F_q_tail, F_error_event}

InitRelated == InitWith(RelatedFragments)

SpecRelated == InitRelated /\ [][Next]_vars

\* The upstream sends `finish` events, with no data, with data and lacking
\* the line end, and a content event.
F_finish == EventBytes(S_finish, <<>>)
F_finish_b == EventBytes(S_finish, <<"b">>)
F_finish_tail == S_event \o <<COLON, SP>> \o S_finish \o <<LF>> \o S_data \o <<COLON, SP, "b">>

FinishFragments == {F_finish, F_finish_b, F_finish_tail, F_content}

InitFinish == InitWith(FinishFragments)

SpecFinish == InitFinish /\ [][Next]_vars

\* The upstream sends several events in one batch: two content events, and
\* a content event, a related question, a content event and a data line that
\* lacks its line end; also a line end.
F_two_events == F_content \o F_content
F_events_tail ==
    F_content \o EventBytes(S_q, <<"b">>) \o F_content \o S_data \o <<COLON, SP, "t">>

BatchedFragments == {F_two_events, F_events_tail, F_newline}

InitBatched == InitWith(BatchedFragments)

SpecBatched == InitBatched /\ [][Next]_vars

\* The upstream sends four events in one batch, `content` a, `q` b, `error`
\* b and `c` c; a data line that lacks its line end; a line that only names
\* an event; and a line end.
F_four_events ==
    EventBytes(S_content, <<"a">>) \o EventBytes(S_q, <<"b">>)
        \o EventBytes(S_error, <<"b">>) \o EventBytes(S_c, <<"c">>)
F_data_t == S_data \o <<COLON, SP, "t">>
F_event_q == S_event \o <<COLON>> \o S_q \o <<CR, LF>>

OrderedFragments == {F_four_events, F_data_t, F_event_q, F_crlf}

InitOrdered == InitWith(OrderedFragments)

SpecOrdered == InitOrdered /\ [][Next]_vars

\* The upstream sends related questions and `error` events, one of them
\* lacking its line end.
ErrorRelatedFragments == {F_rlq_padded, F_q_plain, F_error_event, F_error}

InitErrorRelated == InitWith(ErrorRelatedFragments)

SpecErrorRelated == InitErrorRelated /\ [][Next]_vars

\* The upstream sends line by line: three event lines, a data line, a blank
\* line, an id line, and a comment line with a retry line.
L_event_error == S_event \o <<COLON, SP>> \o S_error \o <<LF>>
L_event_c == S_event \o <<COLON, SP>> \o S_c \o <<LF>>
L_event_q == S_event \o <<COLON, SP>> \o S_q \o <<LF>>
L_data == S_data \o <<COLON, SP, "b", LF>>
L_blank == <<LF>>
L_id == S_id \o <<COLON, SP, "1", LF>>
L_comment_retry == <<COLON, SP, "k", LF>> \o S_retry \o <<COLON, SP, "5", LF>>

LineFragments ==
    {L_event_error, L_event_c, L_event_q, L_data, L_blank, L_id, L_comment_retry}

InitLines == InitWith(LineFragments)

SpecLines == InitLines /\ [][Next]_vars

-----------------------------------------------------------------------------
(* chat_completions_handler of main.rs before the SSE response starts:    *)
(* lines 102-138.                                                          *)

\* The contents of the messages of a request: none, one empty, one with
\* text, and two of which one is empty.
RequestMessages ==
    {<<>>, << <<>> >>, << <<"h", "i">> >>, << <<"h", "i">>, <<>> >>, << <<>>, <<"h", "i">> >>}

\* What client.send_request gives: an error, or a response with a status.
UpstreamStatuses ==
    {<<"2", "0", "0">>, <<"2", "0", "4">>, <<"3", "0", "1">>, <<"4", "0", "4">>,
     <<"5", "0", "0">>}

\* The Err of send_request in the place of a response.
ContactError == <<"E", "r", "r">>

\* A status taken for a success unless it is 5xx.
is_not_server_error(status) == Head(status) # "5"

\* StatusCode::is_success: 2xx.
is_success(status) == Head(status) = "2"

\* A message other than the last taken for the prompt.
FirstContent(messages) ==
    IF Len(messages) = 0 THEN <<>> ELSE messages[1]

\* Line 102: the content of the last message, or the empty string.
LastContent(messages) ==
    IF Len(messages) = 0 THEN <<>> ELSE messages[Len(messages)]

\* The bytes the upstream of a started response composes its batches of.
HandlerFragments == {F_content, EventBytes(S_error, <<"b">>)}

InitHandler ==
    /\ \E model \in ModelOptions, messages \in RequestMessages :
         /\ state = InitialState(model, REQUEST_ID)
         /\ http = [messages |-> messages, model |-> model,
                    upstream |-> None, status |-> None]
    /\ byte_stream = "open"
    /\ pc = "request"
    /\ out = <<>>
    /\ fed = <<>>
    /\ log = <<>>
    /\ polls = 0
    /\ frags = HandlerFragments
    /\ sse = <<>>
    /\ now \in Clock

\* Lines 103-106: an empty prompt is answered 400.
RejectEmpty ==
    /\ pc = "request"
    /\ LastContent(http.messages) = <<>>
    /\ http' = [http EXCEPT !.status = <<"4", "0", "0">>]
    /\ pc' = "responded"
    /\ UNCHANGED <<state, byte_stream, out, fed, log, polls, frags, sse>>
    /\ Tick

\* Lines 121-127: send_request returns an error, answered 500.
ContactFails ==
    /\ pc = "request"
    /\ LastContent(http.messages) # <<>>
    /\ http' = [http EXCEPT !.upstream = Some(ContactError), !.status = <<"5", "0", "0">>]
    /\ pc' = "responded"
    /\ UNCHANGED <<state, byte_stream, out, fed, log, polls, frags, sse>>
    /\ Tick

\* Lines 132-138: the upstream answered with a status that is not 2xx,
\* answered 500.
UpstreamRefuses ==
    /\ pc = "request"
    /\ LastContent(http.messages) # <<>>
    /\ \E status \in UpstreamStatuses :
         /\ ~is_success(status)
         /\ http' = [http EXCEPT !.upstream = Some(status), !.status = <<"5", "0", "0">>]
    /\ pc' = "responded"
    /\ UNCHANGED <<state, byte_stream, out, fed, log, polls, frags, sse>>
    /\ Tick

\* Lines 141-180: the upstream answered 2xx; the driver is started on its
\* byte stream and the SSE response begins.
StartStream ==
    /\ pc = "request"
    /\ LastContent(http.messages) # <<>>
    /\ \E status \in UpstreamStatuses :
         /\ is_success(status)
         /\ http' = [http EXCEPT !.upstream = Some(status), !.status = <<"2", "0", "0">>]
    /\ pc' = "idle"
    /\ UNCHANGED <<state, byte_stream, out, fed, log, polls, frags, sse>>
    /\ Tick

NextHandler == RejectEmpty \/ ContactFails \/ UpstreamRefuses \/ StartStream \/ Next

SpecHandler == InitHandler /\ [][NextHandler]_vars

-----------------------------------------------------------------------------
(* parse_sse_line called on its own, as the tests of lines 504-557 call it *)

\* The longest text after the field of a line.
MaxRestLen == 4

\* What a line begins with: nothing, the four field names, a field name cut
\* short, one in another case, one after a space, and another word.
LineFields ==
    {<<>>, S_event, S_data, S_id, S_retry, <<"d", "a", "t">>, <<"D", "a", "t", "a">>,
     <<SP, "d", "a", "t", "a">>, <<"x">>}

\* What follows: every text of colons, spaces and a letter up to MaxRestLen.
LineRests ==
    UNION {[1..n -> {COLON, SP, "x"}] : n \in 0..MaxRestLen}

InitParse ==
    /\ \E field \in LineFields, rest \in LineRests : fed = field \o rest
    /\ state = InitialState(None, REQUEST_ID)
    /\ byte_stream = "open"
    /\ pc = "line"
    /\ out = <<>>
    /\ log = <<>>
    /\ polls = 0
    /\ frags = {}
    /\ sse = <<>>
    /\ now \in Clock
    /\ http = StreamStarted(None)

\* One call of parse_sse_line, on the line held in fed; log takes the result.
ParseLine ==
    /\ pc = "line"
    /\ log' = <<parse_sse_line(fed)>>
    /\ pc' = "parsed"
    /\ UNCHANGED <<state, byte_stream, out, fed, polls, frags, sse, http>>
    /\ Tick

NextParse == ParseLine

SpecParse == InitParse /\ [][NextParse]_vars

-----------------------------------------------------------------------------
(* process_single_dev_event called on its own, as the unit tests of lines  *)
(* 569-766 call it: one accumulator, one event after another.              *)

\* The most events dispatched to one accumulator.
MaxDispatches == 2

\* Names outside the match of lines 351-431: an unused name, a recognised
\* name in another case, and the empty name of an `event:` line.
S_ping == <<"p", "i", "n", "g">>
S_Content == <<"C", "o", "n", "t", "e", "n", "t">>
S_empty == <<>>

EventNames ==
    {S_message, S_content, S_c, S_action, S_sources, S_repoSources, S_rlq, S_q, S_r,
     S_threadId, S_queryMessageId, S_answerMessageId, S_threadTitle, S_error,
     S_finish, S_ping, S_Content, S_empty}

\* JSON text [{}]: one source, or one GitHub source, with no field set.
J_array_of_object == <<"[", "{", "}", "]">>

\* JSON text []: no source at all.
J_empty_array == <<"[", "]">>

\* Event data: none, plain text, an action, a list of one source and an
\* empty list.
EventData == {<<>>, <<"a">>, J_type_1, J_array_of_object, J_empty_array}

InitDispatch ==
    /\ \E model \in ModelOptions :
         /\ state = InitialState(model, REQUEST_ID)
         /\ http = StreamStarted(model)
    /\ byte_stream = "open"
    /\ pc = "test"
    /\ out = <<>>
    /\ fed = <<>>
    /\ log = <<>>
    /\ polls = 0
    /\ frags = {}
    /\ sse = <<>>
    /\ now \in Clock

\* What a call leaves: the accumulator updated in place, the chunk returned
\* (if any) collected, the call recorded.
Returned(r, event_name, data) ==
    /\ state' = [state EXCEPT !.accumulator = r.accumulator]
    /\ out' = IF r.chunk # None THEN Append(out, Ok(r.chunk[1])) ELSE out
    /\ log' = Append(log, <<event_name, data, "call">>)
    /\ polls' = polls + 1

\* One call of process_single_dev_event on the accumulator.
DispatchEvent ==
    /\ pc = "test"
    /\ polls < MaxDispatches
    /\ \E event_name \in EventNames, data \in EventData :
         Returned(process_single_dev_event(state.accumulator, event_name, data,
                                           state.request_id, state.model_name),
                  event_name, data)
    /\ UNCHANGED <<byte_stream, pc, fed, frags, sse, http>>
    /\ Tick

NextDispatch == DispatchEvent

SpecDispatch == InitDispatch /\ [][NextDispatch]_vars

\* [{"title":"t","n":-0.5}]: one source with a title and a further member.
J_sources_titled ==
    <<"[", "{", "\"", "t", "i", "t", "l", "e", "\"", ":", "\"", "t", "\"", ",",
      "\"", "n", "\"", ":", "-", "0", ".", "5", "}", "]">>

\* [{"url":"u"},{"repo":"r","x":[1]}]: two list members, either a source or
\* a GitHub source: what one struct does not name is a further member of it.
J_two_members ==
    <<"[", "{", "\"", "u", "r", "l", "\"", ":", "\"", "u", "\"", "}", ",", "{",
      "\"", "r", "e", "p", "o", "\"", ":", "\"", "r", "\"", ",", "\"", "x",
      "\"", ":", "[", "1", "]", "}", "]">>

\* [{"title":1}]: no source, title being a number, and yet a GitHub source.
J_title_number ==
    <<"[", "{", "\"", "t", "i", "t", "l", "e", "\"", ":", "1", "}", "]">>

\* [{"repo":1}]: no GitHub source, repo being a number, and yet a source.
J_repo_number ==
    <<"[", "{", "\"", "r", "e", "p", "o", "\"", ":", "1", "}", "]">>

\* The names of the lists and of the metadata slots.
ListNames ==
    {S_sources, S_repoSources, S_threadId, S_queryMessageId, S_answerMessageId,
     S_threadTitle}

\* Event data: lists with members, one of them of no member, and lists that
\* do not parse, as sources, as GitHub sources or as either.
ListData ==
    {J_sources_titled, J_two_members, J_title_number, J_repo_number,
     J_sources_out_of_range, J_empty_array}

\* One call of process_single_dev_event with a list or a metadata event.
DispatchListEvent ==
    /\ pc = "test"
    /\ polls < MaxDispatches
    /\ \E event_name \in ListNames, data \in ListData :
         Returned(process_single_dev_event(state.accumulator, event_name, data,
                                           state.request_id, state.model_name),
                  event_name, data)
    /\ UNCHANGED <<byte_stream, pc, fed, frags, sse, http>>
    /\ Tick

NextLists == DispatchListEvent

SpecLists == InitDispatch /\ [][NextLists]_vars

-----------------------------------------------------------------------------
(* What the claims speak of                                                *)

IsChunk(item) == item.tag = "Ok"
FinishReasonOf(item) == item.chunk[1].choices[1].finish_reason
DeltaContentOf(item) == item.chunk[1].choices[1].delta.content

\* A chunk with a non-null finish_reason.
IsTerminalChunk(item) == IsChunk(item) /\ FinishReasonOf(item) # None
\* A content chunk: finish_reason null.
IsContentChunk(item) == IsChunk(item) /\ FinishReasonOf(item) = None
\* The chunk of an `error` event: terminal, with content.
IsErrorChunk(item) == IsTerminalChunk(item) /\ DeltaContentOf(item) # None

\* The items without the second of their construction: what two runs of the
\* same stream have in common whatever the clock showed.
Timeless(items) ==
    [i \in 1..Len(items) |->
        IF items[i].tag = "Ok"
        THEN [items[i] EXCEPT !.chunk =
                 <<[f \in (DOMAIN items[i].chunk[1]) \ {"created"} |->
                       items[i].chunk[1][f]]>>]
        ELSE items[i]]

ChunkPlaces == {i \in 1..Len(out) : IsChunk(out[i])}
TerminalPlaces == {i \in 1..Len(out) : IsTerminalChunk(out[i])}
ErrorPlaces == {i \in 1..Len(out) : IsErrorChunk(out[i])}

\* The final chunk of this stream, written out: empty delta, `stop`.
TheFinalChunk ==
    [tag |-> "Ok",
     chunk |-> <<[id |-> REQUEST_ID,
                  object |-> S_chunk_object,
                  model |-> state.model_name,
                  choices |-> <<[index |-> 0,
                                 delta |-> [role |-> None, content |-> None],
                                 finish_reason |-> Some(S_stop)]>>]>>]

\* The content chunk of this stream that carries content.
TheContentChunk(content) ==
    [tag |-> "Ok",
     chunk |-> <<[id |-> REQUEST_ID,
                  object |-> S_chunk_object,
                  model |-> state.model_name,
                  choices |-> <<[index |-> 0,
                                 delta |-> [role |-> Some(S_assistant),
                                            content |-> Some(content)],
                                 finish_reason |-> None]>>]>>]

\* The error chunk of this stream for an `error` event with data, written
\* out: content "[STREAM_ERROR]: " + data, finish_reason `stop`.
TheErrorChunk(data) ==
    [tag |-> "Ok",
     chunk |-> <<[id |-> REQUEST_ID,
                  object |-> S_chunk_object,
                  model |-> state.model_name,
                  choices |-> <<[index |-> 0,
                                 delta |-> [role |-> Some(S_assistant),
                                            content |-> Some(<<"[", "S", "T", "R", "E", "A",
                                                               "M", "_", "E", "R", "R", "O",
                                                               "R", "]", ":", " ">> \o data)],
                                 finish_reason |-> Some(<<"s", "t", "o", "p">>)]>>]>>]

\* The place of the first colon of line, 0 when it has none.
FirstColon(line) ==
    IF \E p \in 1..Len(line) : line[p] = ":"
    THEN CHOOSE p \in 1..Len(line) :
            line[p] = ":" /\ \A q \in 1..(p - 1) : line[q] # ":"
    ELSE 0

\* The field of a line and the text after its first colon.
FieldOfLine(line) ==
    IF FirstColon(line) = 0 THEN line ELSE SubSeq(line, 1, FirstColon(line) - 1)
AfterColon(line) ==
    IF FirstColon(line) = 0 THEN <<>> ELSE SubSeq(line, FirstColon(line) + 1, Len(line))

\* A text less one leading space, if it has one.
LessOneSpace(text) ==
    IF Len(text) > 0 /\ text[1] = " " THEN SubSeq(text, 2, Len(text)) ELSE text

\* delta.content of the content chunks among items, concatenated in order.
RECURSIVE ContentConcat(_)
ContentConcat(items) ==
    IF Len(items) = 0 THEN <<>>
    ELSE IF IsContentChunk(items[1])
         THEN DeltaContentOf(items[1])[1] \o ContentConcat(Tail(items))
    ELSE ContentConcat(Tail(items))

\* The upstream has ended and the output stream has ended.
StreamOver == pc = "ended"

-----------------------------------------------------------------------------
(* The claims                                                              *)

\* C1: among the chunks yielded, at most one has a non-null finish_reason,
\* and if there is one no chunk is yielded after it.
C1_OneTerminalChunkLast ==
    /\ Cardinality(TerminalPlaces) <= 1
    /\ \A i \in TerminalPlaces : \A j \in ChunkPlaces : j <= i

\* C2: however the upstream ended, the completed output stream holds exactly
\* one chunk whose finish_reason is non-null.
C2_ExactlyOneTerminalChunk ==
    StreamOver => Cardinality(TerminalPlaces) = 1

\* C3: no chunk is yielded after the error chunk of an `error` event.
C3_NoChunkAfterErrorChunk ==
    \A i \in ErrorPlaces : \A j \in ChunkPlaces : j <= i

\* C4: when the stream has ended, accumulator.text is the concatenation of
\* delta.content over the content chunks yielded, in order.
C4_TextIsContentConcat ==
    StreamOver => state.accumulator.text = ContentConcat(out)

\* What the driver yields, and the accumulator it ends with, when the bytes
\* fed so far arrive as one batch followed by EOF.
OneBatchReference ==
    RunOneBatch([InitialState(None, REQUEST_ID) EXCEPT !.model_name = state.model_name],
                fed)

\* C5: after EOF, the chunks yielded and the final accumulator are those of
\* feeding the same bytes as a single batch followed by EOF, however the
\* bytes were split into batches.
C5_BoundaryAgnostic ==
    (StreamOver /\ byte_stream = "eof") =>
        /\ Timeless(out) = Timeless(OneBatchReference.out)
        /\ state.accumulator = OneBatchReference.state.accumulator

\* C6: `event: content\ndata: tail` then EOF yields one content chunk "tail"
\* from the residual flush, then the final `stop` chunk, and text is "tail".
C6_ResidualContentChunkYielded ==
    (StreamOver /\ byte_stream = "eof" /\ fed = F_tail) =>
        /\ Timeless(out) = <<TheContentChunk(<<"t", "a", "i", "l">>), TheFinalChunk>>
        /\ state.accumulator.text = <<"t", "a", "i", "l">>

\* C7: when the upstream signals EOF and the assembler holds data lines
\* (after the residual lines were taken in), that event is dispatched once,
\* under the event name held, in that step.
C7_PendingEventDispatchedAtEof ==
    [][(byte_stream = "open" /\ byte_stream' = "eof"
            /\ Len(state'.current_data_buffer) # 0) =>
        log' = Append(log, <<state'.current_event_name,
                             Join(state'.current_data_buffer, <<LF>>),
                             "residual">>)]_vars

\* C8: once the upstream has signalled EOF the driver yields at most one more
\* chunk, in the step that handles the EOF, and it is the final chunk (empty
\* delta, finish_reason `stop`); the chunk of the residual dispatch is never
\* yielded.
C8_AfterEofOnlyFinalChunk ==
    [][byte_stream' = "eof" =>
        \/ out' = out
        \/ byte_stream = "open" /\ Timeless(out') = Append(Timeless(out), TheFinalChunk)]_vars

\* C8 witness: the residual flush dispatched a content event, whose chunk was
\* dropped, and the stream ended with the final chunk alone.
C8_Witness ==
    /\ StreamOver
    /\ \E i \in 1..Len(log) : log[i][3] = "residual" /\ log[i][1] = S_content
    /\ Timeless(out) = <<TheFinalChunk>>

\* C9: once the upstream has delivered EOF or a transport error, the output
\* stream reaches its end under repeated pulls.
C9_StreamEndsOnceUpstreamDoes ==
    (byte_stream # "open") ~> StreamOver

\* C9 witness: the stream has ended after a transport error that followed a
\* yielded chunk.
C9_Witness ==
    /\ StreamOver
    /\ byte_stream = "err"
    /\ Len(out) >= 2
    /\ IsChunk(out[1])

\* C10: once final_chunk_sent is true, a step of the driver ends the stream:
\* it yields nothing, does not await the upstream, and changes neither the
\* accumulator nor any other field of the state.
C10_TerminalFlagSticky ==
    [][state.final_chunk_sent =>
        /\ pc' = "ended"
        /\ out' = out
        /\ polls' = polls
        /\ byte_stream' = byte_stream
        /\ state' = state]_vars

\* C10 witness: the final chunk was yielded and a later pull ended the stream.
C10_Witness ==
    /\ StreamOver
    /\ state.final_chunk_sent
    /\ Len(out) >= 2
    /\ Timeless(out)[Len(out)] = TheFinalChunk

\* The chunks that dispatched events gave, among items: every chunk but the
\* final one, whose delta is empty.
HasContent(item) == IsChunk(item) /\ DeltaContentOf(item) # None
EventChunks(items) == SelectSeq(items, HasContent)

IsPrefix(s, t) == Len(s) <= Len(t) /\ SubSeq(t, 1, Len(s)) = s

\* The places lo..hi of text that hold the character c, in increasing order.
RECURSIVE PlacesOf(_, _, _, _)
PlacesOf(text, c, lo, hi) ==
    IF lo > hi THEN <<>>
    ELSE IF lo = hi THEN IF text[lo] = c THEN <<lo>> ELSE <<>>
    ELSE PlacesOf(text, c, lo, (lo + hi) \div 2)
             \o PlacesOf(text, c, (lo + hi) \div 2 + 1, hi)

\* The lines of text that a line feed ends, ends being the places of the
\* line feeds: each less its trailing carriage returns.
CompleteLines(text, ends) ==
    SubSeq([k \in 1..Len(ends) |->
               TrimEndMatches(SubSeq(text, (IF k = 1 THEN 0 ELSE ends[k - 1]) + 1,
                                     ends[k] - 1),
                              {"\r"})],
           1, Len(ends))

\* The lines the upstream has completed, in order.
UpstreamLines ==
    CompleteLines(fed, PlacesOf(fed, "\n", 1, Len(fed)))

IsFieldLine(line, field) == line[1] # ":" /\ FieldOfLine(line) = field
NamesLine(line) == IsFieldLine(line, <<"e", "v", "e", "n", "t">>)
CarriesData(line) == IsFieldLine(line, <<"d", "a", "t", "a">>)

\* The name of an event, naming being its `event` lines: the value of the
\* last one, `message` when it has none.
EventNameOf(naming) ==
    IF naming = <<>> THEN <<"m", "e", "s", "s", "a", "g", "e">>
    ELSE LessOneSpace(AfterColon(naming[Len(naming)]))

\* The data of an event, carrying being its `data` lines: their values
\* joined with a line feed.
RECURSIVE DataOf(_)
DataOf(carrying) ==
    IF Len(carrying) = 0 THEN <<>>
    ELSE IF Len(carrying) = 1 THEN LessOneSpace(AfterColon(carrying[1]))
    ELSE LessOneSpace(AfterColon(carrying[1])) \o <<"\n">> \o DataOf(Tail(carrying))

\* The chunk an event of this name and data is to give, if any: `message`,
\* `content` and `c` give a content chunk of their data unless it is empty,
\* `error` gives the error chunk, every other name gives none.
ChunkOf(name, data) ==
    IF name \in {<<"m", "e", "s", "s", "a", "g", "e">>,
                 <<"c", "o", "n", "t", "e", "n", "t">>, <<"c">>}
    THEN IF data = <<>> THEN <<>> ELSE <<TheContentChunk(data)>>
    ELSE IF name = <<"e", "r", "r", "o", "r">> THEN <<TheErrorChunk(data)>>
    ELSE <<>>

\* Lines without a `data` line among them are no event.
ChunkFor(naming, carrying) ==
    IF carrying = <<>> THEN <<>>
    ELSE ChunkOf(EventNameOf(naming), DataOf(carrying))

\* The chunk of the event that lines, the lines between two blank lines, make.
ChunkOfEvent(lines) ==
    ChunkFor(SelectSeq(lines, NamesLine), SelectSeq(lines, CarriesData))

\* The chunks of the events that end at or after line k of lines, in the
\* order in which the events end; start is the place after the last blank
\* line before line k, where the event that line k belongs to begins.
RECURSIVE ChunksFrom(_, _, _)
ChunksFrom(lines, k, start) ==
    IF k > Len(lines) THEN <<>>
    ELSE IF lines[k] = <<>>
         THEN ChunkOfEvent(SubSeq(lines, start, k - 1))
                  \o ChunksFrom(lines, k + 1, k + 1)
    ELSE ChunksFrom(lines, k + 1, start)

\* The chunks of the blank-line-terminated events of the bytes fed so far, in
\* the order of the events in the bytes: read off the bytes, not off a run of
\* the driver.
UpstreamOrderReference == ChunksFrom(UpstreamLines, 1, 1)

\* yielded goes as expected does: it is a prefix of it, and the whole of it
\* once the driver awaits the upstream or has ended.
InUpstreamOrder(yielded, expected) ==
    /\ IsPrefix(yielded, expected)
    /\ pc \in {"await", "ended"} => yielded = expected

\* C11: the chunks of blank-line-terminated events are yielded in the order
\* of the events in the upstream bytes, each once and none skipped: what was
\* yielded is always a prefix of the chunks of the events the bytes fed hold,
\* and all of them once the driver awaits the upstream or has ended.
C11_OutputFollowsUpstreamOrder ==
    InUpstreamOrder(EventChunks(Timeless(out)), UpstreamOrderReference)

\* C11 witness: one batch brought four events, `content` a, `q` b, `error` b
\* and `c` c; their three chunks were yielded one pull after the other, in
\* that order, and the driver awaits more bytes.
C11_Witness ==
    /\ fed = F_four_events
    /\ pc = "await"
    /\ Timeless(out) = <<TheContentChunk(<<"a">>), TheErrorChunk(<<"b">>),
                         TheContentChunk(<<"c">>)>>

\* C11 witness: a data line, its line end and a blank line came each in a
\* batch of its own, and then the four events: the chunk of the unnamed
\* event `t` was yielded, then those of the four events.
C11_WitnessAcrossBatches ==
    /\ fed = F_data_t \o F_crlf \o F_crlf \o F_four_events
    /\ pc = "await"
    /\ Timeless(out) = <<TheContentChunk(<<"t">>), TheContentChunk(<<"a">>),
                         TheErrorChunk(<<"b">>), TheContentChunk(<<"c">>)>>

\* C12: in the step that yields a content chunk, accumulator.text is the
\* concatenation of delta.content of the content chunks yielded so far, that
\* one included.
C12_TextAtEachContentChunk ==
    [][(Len(out') = Len(out) + 1 /\ IsContentChunk(out'[Len(out')])) =>
        state'.accumulator.text = ContentConcat(out')]_vars

\* C12 witness: a second content chunk was yielded, after an error chunk.
C12_Witness ==
    /\ Len(out) >= 3
    /\ IsContentChunk(out[1])
    /\ IsErrorChunk(out[2])
    /\ IsContentChunk(out[3])
    /\ state.accumulator.text = <<"a", "a">>

\* C13: in the step that takes an upstream transport error the driver yields
\* one error result and nothing else: nothing is dispatched, the accumulator,
\* the pending data lines and the residual buffer stay as they were, and only
\* the terminal flag is set; afterwards the only step ends the stream, with
\* no further item.
C13_TransportErrorEndsStream ==
    [][/\ (byte_stream = "open" /\ byte_stream' = "err") =>
            /\ out' = Append(out, Err)
            /\ log' = log
            /\ state' = [state EXCEPT !.final_chunk_sent = TRUE]
       /\ byte_stream = "err" =>
            /\ out' = out
            /\ log' = log
            /\ state' = state
            /\ pc' = "ended"]_vars

\* C13 witness: the stream ended on a transport error that came while data
\* lines were pending; the error result is the last item and nothing of the
\* pending event reached the accumulator.
C13_Witness ==
    /\ StreamOver
    /\ byte_stream = "err"
    /\ Len(state.current_data_buffer) # 0
    /\ out = <<Err>>
    /\ state.accumulator = DefaultAccumulator

\* The last event dispatched by the step, when the step dispatched one.
StepDispatched == Len(log') > Len(log)
LastDispatched == log'[Len(log')]

\* C14: a step whose last dispatch is an `error` event leaves accumulator.error
\* set to the event data and is_finished true; the dispatcher returns the
\* error chunk ("[STREAM_ERROR]: " + data, finish_reason `stop`), which the
\* driver yields for a blank-line-terminated event; and when EOF comes with
\* the accumulator finished, the driver ends without yielding anything more.
C14_ErrorEventFinishes ==
    [][/\ (StepDispatched /\ LastDispatched[1] = S_error) =>
            /\ state'.accumulator.error = Some(LastDispatched[2])
            /\ state'.accumulator.is_finished
            /\ Timeless(<<Ok(process_single_dev_event(
                                 state'.accumulator, S_error, LastDispatched[2],
                                 state.request_id, state.model_name).chunk[1])>>)
                    = <<TheErrorChunk(LastDispatched[2])>>
            /\ LastDispatched[3] = "line" =>
                    Timeless(out') = Append(Timeless(out), TheErrorChunk(LastDispatched[2]))
       /\ (byte_stream = "open" /\ byte_stream' = "eof" /\ state.accumulator.is_finished) =>
            /\ out' = out
            /\ pc' = "ended"]_vars

\* C14 witness: an `error` event was dispatched, its chunk yielded, and the
\* stream then ended at EOF with that chunk as its only item.
C14_Witness ==
    /\ StreamOver
    /\ byte_stream = "eof"
    /\ Timeless(out) = <<TheErrorChunk(<<"b">>)>>
    /\ state.accumulator.error = Some(<<"b">>)
    /\ state.accumulator.is_finished

\* A dispatched structured event whose data failed to parse.
IsMalformed(e) ==
    \/ e[1] = S_action /\ safe_json_parse_DevAction(e[2]) = None
    \/ e[1] = S_sources /\ safe_json_parse_DevSources(e[2]) = None
    \/ e[1] = S_repoSources /\ safe_json_parse_DevGithubSources(e[2]) = None
WellFormed(e) == ~IsMalformed(e)

\* The dispatcher applied to the events of entries in order, from acc: the
\* accumulator it leaves and the chunks of the blank-line-terminated events.
RECURSIVE Replay(_, _, _, _)
ReplayNext(entries, i, r, chunks) ==
    Replay(entries, i + 1, r.accumulator,
           IF r.chunk # None /\ entries[i][3] = "line"
           THEN Append(chunks, Ok(r.chunk[1])) ELSE chunks)
Replay(entries, i, acc, chunks) ==
    IF i > Len(entries) THEN [accumulator |-> acc, chunks |-> chunks]
    ELSE ReplayNext(entries, i,
                    process_single_dev_event(acc, entries[i][1], entries[i][2],
                                             state.request_id, state.model_name),
                    chunks)

\* The stream as it would be had the malformed events been absent.
WithoutMalformed == Replay(SelectSeq(log, WellFormed), 1, DefaultAccumulator, <<>>)

\* The accumulator the driver holds after the events replayed: finished by
\* the final action once EOF was handled.
AccumulatorAfter(acc) ==
    IF byte_stream = "eof" /\ ~acc.is_finished THEN FinishAccumulator(acc) ELSE acc

\* The accumulator held and the chunks yielded are those of replayed, a
\* replay of events: the chunks yielded are a prefix of its chunks, and all
\* of them once the driver awaits the upstream or has ended.
StreamIsThatOf(replayed) ==
    /\ state.accumulator = AccumulatorAfter(replayed.accumulator)
    /\ IsPrefix(EventChunks(Timeless(out)), Timeless(replayed.chunks))
    /\ pc \in {"await", "ended"} => EventChunks(Timeless(out)) = Timeless(replayed.chunks)

\* C15: structured events whose data fails to parse leave no trace: the
\* accumulator and the chunks yielded are those of the other events alone,
\* dispatched in the same order.
C15_MalformedEventDropped == StreamIsThatOf(WithoutMalformed)

\* The action of J_action_members as it is held once parsed.
ActionWithMembers ==
    [action_type |-> <<"1">>,
     extra |-> {<< <<"x">>, <<"f64", <<FALSE, <<"1", "5">>, 1>>>> >>,
                << <<"y">>, <<"arr", << <<"obj", {<< <<"k">>, <<"lit", S_null>> >>}>> >> >> >>}]

\* C15 witness: an action whose type is a string and sources with a number
\* out of range were dispatched and left no trace; the action and the
\* content event dispatched after them are held, and the content chunk was
\* yielded.
C15_Witness ==
    /\ Len(log) = 4
    /\ log[1] = <<S_action, J_type_string, "line">>
    /\ log[2] = <<S_sources, J_sources_out_of_range, "line">>
    /\ IsMalformed(log[1]) /\ IsMalformed(log[2])
    /\ log[3] = <<S_action, J_action_members, "line">>
    /\ log[4] = <<S_message, <<"a">>, "line">>
    /\ state.accumulator.actions = <<ActionWithMembers>>
    /\ state.accumulator.sources = <<>>
    /\ state.accumulator.text = <<"a">>
    /\ EventChunks(Timeless(out)) = <<TheContentChunk(<<"a">>)>>

\* C15 witness: repoSources that is an object was dispatched after an action
\* that parsed; the action is held and no GitHub source is.
C15_WitnessRepoSources ==
    /\ Len(log) = 2
    /\ log[1] = <<S_action, J_action_members, "line">>
    /\ log[2] = <<S_repoSources, J_empty_object, "line">>
    /\ IsMalformed(log[2])
    /\ state.accumulator.actions = <<ActionWithMembers>>
    /\ state.accumulator.github_sources = <<>>

\* The event names the dispatcher recognises.
RecognisedNames ==
    {<<"m", "e", "s", "s", "a", "g", "e">>, <<"c", "o", "n", "t", "e", "n", "t">>, <<"c">>,
     <<"a", "c", "t", "i", "o", "n">>, <<"s", "o", "u", "r", "c", "e", "s">>,
     <<"r", "e", "p", "o", "S", "o", "u", "r", "c", "e", "s">>,
     <<"r", "l", "q">>, <<"q">>, <<"r">>,
     <<"t", "h", "r", "e", "a", "d", "I", "d">>,
     <<"q", "u", "e", "r", "y", "M", "e", "s", "s", "a", "g", "e", "I", "d">>,
     <<"a", "n", "s", "w", "e", "r", "M", "e", "s", "s", "a", "g", "e", "I", "d">>,
     <<"t", "h", "r", "e", "a", "d", "T", "i", "t", "l", "e">>,
     <<"e", "r", "r", "o", "r">>, <<"f", "i", "n", "i", "s", "h">>}

\* C16: a dispatch of an event whose name is not recognised returns no chunk
\* and leaves every field of the accumulator as it was.
C16_UnknownEventIgnored ==
    [][(StepDispatched /\ LastDispatched[3] = "call"
            /\ LastDispatched[1] \notin RecognisedNames) =>
        /\ out' = out
        /\ state'.accumulator = state.accumulator]_vars

\* C16 witness: an unrecognised event was dispatched to an accumulator that
\* already held text, and the text is still there, with one chunk.
C16_Witness ==
    /\ Len(log) = 2
    /\ log[1] = <<S_content, <<"a">>, "call">>
    /\ log[2][1] \notin RecognisedNames
    /\ log[2][2] = <<"a">>
    /\ state.accumulator.text = <<"a">>
    /\ Len(out) = 1

\* C17: a dispatch returns a chunk exactly when the event is `message`,
\* `content` or `c` with non-empty data, and the chunk is then the content
\* chunk of the data (finish_reason null), or the event is `error`; every
\* other dispatch returns none.
C17_ChunkOnlyForContentAndError ==
    [][(StepDispatched /\ LastDispatched[3] = "call") =>
        /\ out' # out <=>
              \/ LastDispatched[1] \in {<<"m", "e", "s", "s", "a", "g", "e">>,
                                        <<"c", "o", "n", "t", "e", "n", "t">>, <<"c">>}
                    /\ LastDispatched[2] # <<>>
              \/ LastDispatched[1] = <<"e", "r", "r", "o", "r">>
        /\ out' # out =>
              \/ LastDispatched[1] = <<"e", "r", "r", "o", "r">>
                    /\ Timeless(out') = Append(Timeless(out), TheErrorChunk(LastDispatched[2]))
              \/ LastDispatched[1] # <<"e", "r", "r", "o", "r">>
                    /\ Timeless(out') =
                          Append(Timeless(out), TheContentChunk(LastDispatched[2]))]_vars

\* C17 witness: a content event with data and an `action` event that parsed
\* were dispatched; only the first returned a chunk.
C17_Witness ==
    /\ Len(log) = 2
    /\ log[1] = <<S_c, <<"a">>, "call">>
    /\ log[2] = <<S_action, J_type_1, "call">>
    /\ Len(state.accumulator.actions) = 1
    /\ Timeless(out) = <<TheContentChunk(<<"a">>)>>

\* C18: no entry of accumulator.related_questions is empty or begins or ends
\* with whitespace.
C18_RelatedQuestionsClean ==
    \A i \in 1..Len(state.accumulator.related_questions) :
        /\ Len(state.accumulator.related_questions[i]) > 0
        /\ Head(state.accumulator.related_questions[i]) \notin {" ", "\n", "\r", "\t", "\f"}
        /\ state.accumulator.related_questions[i]
                [Len(state.accumulator.related_questions[i])] \notin {" ", "\n", "\r", "\t", "\f"}

\* C18 witness: the raw buffer held a padded question, an empty line inside
\* an event and a line of spaces, and the list was computed at EOF.
C18_Witness ==
    /\ byte_stream = "eof"
    /\ Len(log) = 3
    /\ log[1][2] = <<SP, "A", SP>>
    /\ log[2][2] = <<"C", LF, LF, SP, "D">>
    /\ log[3][2] = <<SP, SP>>
    /\ state.accumulator.related_questions_raw = <<LF, "A", LF, "C", LF, LF, SP, "D", LF>>
    /\ state.accumulator.related_questions = << <<"A">>, <<"C">>, <<"D">> >>

\* The trimmed non-empty lines of the data of the `rlq` and `q` events among
\* entries, in order.
RECURSIVE QuestionsOf(_)
QuestionsOf(entries) ==
    IF Len(entries) = 0 THEN <<>>
    ELSE IF entries[1][1] \in {<<"r", "l", "q">>, <<"q">>}
         THEN NonEmpty(TrimAll(Split(entries[1][2], LF))) \o QuestionsOf(Tail(entries))
    ELSE QuestionsOf(Tail(entries))

\* C19: after a clean EOF with no `error` event, related_questions is the
\* trimmed non-empty lines of the data of the `rlq` and `q` events dispatched,
\* in arrival order, and computing it again gives the same list.
C19_RelatedQuestionsAtEof ==
    (byte_stream = "eof" /\ state.accumulator.error = None) =>
        /\ state.accumulator.related_questions = QuestionsOf(log)
        /\ update_related_questions(state.accumulator) = state.accumulator

\* C19 witness: rlq ` A `, then q `B`, then an unterminated q `E` dispatched
\* by the residual flush, gave [A, B, E].
C19_Witness ==
    /\ StreamOver
    /\ byte_stream = "eof"
    /\ Len(log) = 3
    /\ log[1][1] = S_rlq
    /\ log[2][1] = S_q
    /\ log[3] = <<S_q, <<"E">>, "residual">>
    /\ state.accumulator.related_questions = << <<"A">>, <<"B">>, <<"E">> >>

\* The `[DONE]` data event, written out, and its places among the events sent.
TheDoneEvent == [event |-> <<>>, data |-> <<"[", "D", "O", "N", "E", "]">>]
DonePlaces == {i \in 1..Len(sse) : sse[i] = TheDoneEvent}

\* Item i of the driver's stream was sent as event i: a chunk as a data
\* event carrying a JSON object, an error result as an `error` event.
SentAsEvent(i) ==
    IF IsChunk(out[i])
    THEN sse[i].event = <<>> /\ Head(sse[i].data) = "{"
    ELSE sse[i].event = << <<"e", "r", "r", "o", "r">> >>

\* C20: while the driver's stream runs, each of its items has been sent as one
\* SSE event and no `[DONE]` event has been sent; once it has ended, however it
\* ended, exactly one `[DONE]` data event has been sent, after the events of
\* all the items, and it is the last event.
C20_DoneOnceAndLast ==
    /\ \A i \in 1..Len(out) : i <= Len(sse) /\ SentAsEvent(i)
    /\ ~StreamOver => Len(sse) = Len(out) /\ DonePlaces = {}
    /\ StreamOver => Len(sse) = Len(out) + 1 /\ DonePlaces = {Len(sse)}

\* C20 witness: the stream ended on a transport error after a chunk; the
\* chunk's data event, the `error` event and `[DONE]` were sent, in that order.
C20_Witness ==
    /\ StreamOver
    /\ byte_stream = "err"
    /\ Len(out) = 2
    /\ IsChunk(out[1])
    /\ out[2] = Err
    /\ Len(sse) = 3
    /\ sse[2].event = Some(S_error)
    /\ sse[3] = TheDoneEvent

\* C20 witness: the stream ended with the final chunk, or with an error
\* chunk and no final chunk, and `[DONE]` followed.
C20_WitnessChunkEndings ==
    /\ StreamOver
    /\ byte_stream = "eof"
    /\ Len(out) >= 2
    /\ IsTerminalChunk(out[Len(out)])
    /\ sse[Len(sse)] = TheDoneEvent

\* The handler answered without starting the translator: nothing was pulled,
\* dispatched, yielded or sent, and nothing more happens.
NotStarted ==
    /\ pc = "responded"
    /\ polls = 0
    /\ log = <<>>
    /\ out = <<>>
    /\ sse = <<>>

\* C21: once the handler has decided, a request whose last message is empty
\* or that has no message was answered 400 with the upstream not contacted;
\* a request whose upstream could not be reached or answered outside 2xx was
\* answered 500; in both cases the translator was not started and no event,
\* `[DONE]` included, was sent; every other request started the response.
C21_PreStreamFailures ==
    pc # "request" =>
        IF http.messages = <<>> \/ http.messages[Len(http.messages)] = <<>>
        THEN http.status = <<"4", "0", "0">> /\ http.upstream = <<>> /\ NotStarted
        ELSE IF http.upstream[1][1] # "2"
        THEN http.status = <<"5", "0", "0">> /\ NotStarted
        ELSE http.status = <<"2", "0", "0">> /\ pc # "responded"

\* C21 witness: a request whose last message is empty, after one with text,
\* was answered 400.
C21_Witness ==
    /\ http.messages = << <<"h", "i">>, <<>> >>
    /\ http.status = <<"4", "0", "0">>
    /\ pc = "responded"

\* C21 witness: an upstream that answered 404 gave a 500, and a request that
\* passed the checks ended its response with `[DONE]`.
C21_WitnessRefused ==
    http.upstream = << <<"4", "0", "4">> >> /\ http.status = <<"5", "0", "0">>
C21_WitnessStarted ==
    http.upstream = << <<"2", "0", "4">> >> /\ StreamOver /\ Len(sse) >= 2

\* C22: parse_sse_line gives Empty for the empty line, Comment for a line
\* that begins with a colon; otherwise the field is the text before the first
\* colon (the whole line when there is none), and `event`, `data`, `id`,
\* `retry` give their variant with the text after that colon less at most
\* one leading space, every later character kept; any other field gives
\* Comment.
C22_ParseSseLine ==
    pc = "parsed" =>
        /\ Len(log) = 1
        /\ log[1].tag =
              IF fed = <<>> THEN "Empty"
              ELSE IF fed[1] = ":" THEN "Comment"
              ELSE IF FieldOfLine(fed) = <<"e", "v", "e", "n", "t">> THEN "Event"
              ELSE IF FieldOfLine(fed) = <<"d", "a", "t", "a">> THEN "Data"
              ELSE IF FieldOfLine(fed) = <<"i", "d">> THEN "Id"
              ELSE IF FieldOfLine(fed) = <<"r", "e", "t", "r", "y">> THEN "Retry"
              ELSE "Comment"
        /\ log[1].tag \in {"Event", "Data", "Id", "Retry"} =>
              log[1].value = LessOneSpace(AfterColon(fed))

\* C22 witness: `data:  :` gave Data with the value ` :`: one space removed,
\* the second space and the further colon kept.
C22_Witness ==
    /\ pc = "parsed"
    /\ fed = <<"d", "a", "t", "a", ":", " ", " ", ":">>
    /\ log = <<[tag |-> "Data", value |-> <<" ", ":">>]>>

\* The `action` events dispatched whose data is a well-formed JSON object.
WellFormedActionPlaces ==
    {i \in 1..Len(log) :
        log[i][1] = S_action /\ Complete(ParseJsonObject(log[i][2])) # None}

\* C23: every `action` event whose data is a well-formed JSON object has
\* appended one Action to accumulator.actions, and none of them yielded a
\* chunk: the actions are as many as those events, and the chunks yielded are
\* those of the other events.
C23_WellFormedActionAppended ==
    /\ Len(state.accumulator.actions) = Cardinality(WellFormedActionPlaces)
    /\ \A i \in 1..Len(out) :
          IsChunk(out[i]) => IsContentChunk(out[i]) \/ Timeless(out)[i] = TheFinalChunk

\* C24: every chunk yielded carries the request id handed to the driver and
\* the model of the request (`unknown-dev-model` when the request names
\* none), has object `chat.completion.chunk` and one choice, with index 0.
C24_ChunksShareIdAndModel ==
    \A i \in ChunkPlaces :
        /\ out[i].chunk[1].id = <<"i", "d", "-", "1">>
        /\ out[i].chunk[1].model =
              IF http.model = <<>>
              THEN <<"u", "n", "k", "n", "o", "w", "n", "-", "d", "e", "v", "-",
                     "m", "o", "d", "e", "l">>
              ELSE http.model[1]
        /\ out[i].chunk[1].object =
              <<"c", "h", "a", "t", ".", "c", "o", "m", "p", "l", "e", "t", "i", "o", "n",
                ".", "c", "h", "u", "n", "k">>
        /\ Len(out[i].chunk[1].choices) = 1
        /\ out[i].chunk[1].choices[1].index = 0

\* C24 witness: a request that names a model got a content chunk and the
\* final chunk.
C24_Witness ==
    /\ http.model = << <<"g", "p", "t">> >>
    /\ Len(out) = 2
    /\ IsContentChunk(out[1])
    /\ Timeless(out)[2] = TheFinalChunk

\* C24 witness: a request that names no model got a content chunk and an
\* error chunk.
C24_WitnessUnnamed ==
    /\ http.model = <<>>
    /\ Len(out) = 2
    /\ IsContentChunk(out[1])
    /\ IsErrorChunk(out[2])

\* The step takes the batch bytes from the upstream while no text is
\* buffered: the lines of the batch are all the step processes.
TakesBatch(bytes) ==
    /\ pc = "await"
    /\ fed' = fed \o bytes
    /\ state.decoder_buffer = <<>>

\* C25: a blank line processed while no data line is held changes nothing in
\* the assembler: the event name and the data lines stay as they were.
C25_BlankLineKeepsEventName ==
    [][(TakesBatch(<<"\n">>) /\ state.current_data_buffer = <<>>) =>
        /\ state'.current_event_name = state.current_event_name
        /\ state'.current_data_buffer = state.current_data_buffer]_vars

\* The lines the upstream has sent, and those since the last blank line: the
\* block being assembled.
FedLines == SubSeq(Split(fed, "\n"), 1, Len(Split(fed, "\n")) - 1)
BlockStart ==
    IF \E i \in 1..Len(FedLines) : FedLines[i] = <<>>
    THEN 1 + CHOOSE i \in 1..Len(FedLines) :
                /\ FedLines[i] = <<>>
                /\ \A j \in (i + 1)..Len(FedLines) : FedLines[j] # <<>>
    ELSE 1
Block == SubSeq(FedLines, BlockStart, Len(FedLines))

StartsWith(line, pre) == Len(line) >= Len(pre) /\ SubSeq(line, 1, Len(pre)) = pre
IsEventLine(line) == StartsWith(line, <<"e", "v", "e", "n", "t", ":", " ">>)
IsDataLine(line) == StartsWith(line, <<"d", "a", "t", "a", ":", " ">>)
ValueAfter(line, n) == SubSeq(line, n + 1, Len(line))

\* The name of the block: the value of its last event line, else `message`.
BlockEventName ==
    IF SelectSeq(Block, IsEventLine) = <<>> THEN <<"m", "e", "s", "s", "a", "g", "e">>
    ELSE ValueAfter(SelectSeq(Block, IsEventLine)[Len(SelectSeq(Block, IsEventLine))], 7)

\* The data of the block: the values of its data lines, in order, joined
\* with a newline.
RECURSIVE JoinedValues(_)
JoinedValues(lines) ==
    IF Len(lines) = 0 THEN <<>>
    ELSE IF Len(lines) = 1 THEN ValueAfter(lines[1], 6)
    ELSE ValueAfter(lines[1], 6) \o <<"\n">> \o JoinedValues(Tail(lines))
BlockData == JoinedValues(SelectSeq(Block, IsDataLine))

\* C26: a blank line processed while data lines are held dispatches one
\* event, named by the last event line of the block (`message` when it has
\* none), its data the data lines joined with a newline in order; after it
\* no data line is held and the event name is `message`, whether or not a
\* chunk was yielded. An id line, and a comment line with a retry line, change
\* nothing in the state and dispatch nothing.
C26_BlankLineDispatchesBlock ==
    [][/\ (TakesBatch(<<"\n">>) /\ state.current_data_buffer # <<>>) =>
            /\ log' = Append(log, <<BlockEventName, BlockData, "line">>)
            /\ state'.current_data_buffer = <<>>
            /\ state'.current_event_name = <<"m", "e", "s", "s", "a", "g", "e">>
       /\ (\/ TakesBatch(<<"i", "d", ":", " ", "1", "\n">>)
           \/ TakesBatch(<<":", " ", "k", "\n", "r", "e", "t", "r", "y", ":", " ", "5", "\n">>)) =>
            /\ state' = state
            /\ log' = log
            /\ out' = out]_vars

\* C26 witness: the block `event: c`, `data: b`, `data: b` was dispatched at
\* its blank line as one `c` event with the data of both lines, and its
\* chunk yielded.
C26_Witness ==
    /\ fed = L_event_c \o L_data \o L_data \o L_blank
    /\ log = << <<S_c, <<"b", LF, "b">>, "line">> >>
    /\ Timeless(out) = <<TheContentChunk(<<"b", LF, "b">>)>>
    /\ state.current_data_buffer = <<>>
    /\ state.current_event_name = S_message

\* C26 witness: a block named `q` was dispatched and yielded no chunk; the
\* event name is `message` again.
C26_WitnessNoChunk ==
    /\ fed = L_event_error \o L_event_q \o L_data \o L_blank
    /\ log = << <<S_q, <<"b">>, "line">> >>
    /\ out = <<>>
    /\ state.current_event_name = S_message

\* C27: whenever accumulator.error is set, is_finished is true; and no step
\* of the driver, the dispatches it makes included, takes is_finished from
\* true back to false.
C27_ErrorImpliesFinishedForGood ==
    [][/\ state.accumulator.error # None => state.accumulator.is_finished
       /\ state'.accumulator.error # None => state'.accumulator.is_finished
       /\ state.accumulator.is_finished => state'.accumulator.is_finished]_vars

\* C27 witness: an `error` event was dispatched, another event after it, and
\* the stream has ended; error is set and is_finished is true.
C27_Witness ==
    /\ Len(log) >= 2
    /\ log[1][1] = S_error
    /\ pc = "ended"
    /\ state.accumulator.error # None
    /\ state.accumulator.is_finished

\* C28: once accumulator.error is set, no later event changes it, a second
\* `error` event included.
C28_ErrorSetOnce ==
    [][state.accumulator.error # None =>
          state'.accumulator.error = state.accumulator.error]_vars

\* A `finish` event was dispatched earlier in the stream.
FinishSeen == \E i \in 1..Len(log) : log[i][1] = S_finish

\* The step dispatches, on a blank line, one event of one of the names.
DispatchesOnLine(names) ==
    /\ Len(log') = Len(log) + 1
    /\ SubSeq(log', 1, Len(log)) = log
    /\ log'[Len(log')][1] \in names
    /\ log'[Len(log')][3] = "line"

\* C29: a `finish` event yields no chunk and leaves the accumulator as it
\* was, is_finished included; a content event dispatched after it yields its
\* content chunk; and when the stream ends after it, the final `stop` chunk
\* is the last item yielded.
C29_FinishEventIgnored ==
    [][/\ DispatchesOnLine({S_finish}) =>
            /\ state'.accumulator = state.accumulator
            /\ ~state'.accumulator.is_finished
            /\ out' = out
       /\ (FinishSeen /\ DispatchesOnLine({S_message, S_content, S_c})
              /\ log'[Len(log')][2] # <<>>) =>
            Timeless(out') = Append(Timeless(out), TheContentChunk(log'[Len(log')][2]))
       /\ (FinishSeen /\ byte_stream = "open" /\ byte_stream' = "eof") =>
            /\ Len(out') = Len(out) + 1
            /\ Timeless(out')[Len(out')] = TheFinalChunk
            /\ FinishReasonOf(out'[Len(out')]) = Some(S_stop)]_vars

\* C29 witness: a `finish` event, then a content event, then the end of the
\* stream: the content chunk and the final chunk were yielded.
C29_Witness ==
    /\ fed = F_finish \o F_content
    /\ log = << <<S_finish, <<>>, "line">>, <<S_message, <<"a">>, "line">> >>
    /\ pc = "ended"
    /\ Timeless(out) = <<TheContentChunk(<<"a">>), TheFinalChunk>>

\* The last of a non-empty set of places of the log.
LastPlace(places) == CHOOSE m \in places : \A i \in places : i <= m

\* The dispatches of a name, and those of `sources` and of `repoSources`
\* whose data parsed.
PlacesNamed(name) == {i \in 1..Len(log) : log[i][1] = name}
ParsedSourcesPlaces ==
    {i \in PlacesNamed(S_sources) : safe_json_parse_DevSources(log[i][2]) # None}
ParsedRepoSourcesPlaces ==
    {i \in PlacesNamed(S_repoSources) :
        safe_json_parse_DevGithubSources(log[i][2]) # None}

\* The data of the most recent event of a name, if any.
LastDataNamed(name) ==
    IF PlacesNamed(name) = {} THEN None
    ELSE Some(log[LastPlace(PlacesNamed(name))][2])

\* C30: after any sequence of dispatches, sources is the list parsed from
\* the most recent `sources` event whose data parsed, empty if none did, and
\* likewise github_sources for `repoSources`; so an event whose data does not
\* parse leaves the list as it was. Each of thread_id, query_message_id,
\* answer_message_id and thread_title holds the data of the most recent event
\* of its name, and is unset if there was none.
C30_SourcesAndMetadataLastWriter ==
    /\ state.accumulator.sources =
          IF ParsedSourcesPlaces = {} THEN <<>>
          ELSE safe_json_parse_DevSources(log[LastPlace(ParsedSourcesPlaces)][2])[1]
    /\ state.accumulator.github_sources =
          IF ParsedRepoSourcesPlaces = {} THEN <<>>
          ELSE safe_json_parse_DevGithubSources(
                   log[LastPlace(ParsedRepoSourcesPlaces)][2])[1]
    /\ state.accumulator.thread_id = LastDataNamed(S_threadId)
    /\ state.accumulator.query_message_id = LastDataNamed(S_queryMessageId)
    /\ state.accumulator.answer_message_id = LastDataNamed(S_answerMessageId)
    /\ state.accumulator.thread_title = LastDataNamed(S_threadTitle)

\* The lists of J_sources_titled and of J_title_number as they are held once
\* parsed, the one as sources and the other as GitHub sources.
SourcesTitled ==
    <<[title |-> Some(<<"t">>), url |-> None,
       extra |-> {<< <<"n">>, <<"f64", <<FALSE, <<"5">>, -1>>>> >>}]>>
GithubSourcesTitleNumber ==
    <<[repo |-> None, file_path |-> None,
       extra |-> {<< <<"t", "i", "t", "l", "e">>, <<"num", <<"1">>>> >>}]>>

\* C30 witness: a `sources` event with one titled source, then one whose data
\* does not parse, its title being a number: the titled source is still
\* held.
C30_Witness ==
    /\ log = << <<S_sources, J_sources_titled, "call">>,
                <<S_sources, J_title_number, "call">> >>
    /\ state.accumulator.sources = SourcesTitled

\* C30 witness: two `repoSources` events that parse and two `threadId` events;
\* the later data is held.
C30_WitnessReplaced ==
    \/ /\ log = << <<S_repoSources, J_two_members, "call">>,
                   <<S_repoSources, J_title_number, "call">> >>
       /\ state.accumulator.github_sources = GithubSourcesTitleNumber
    \/ /\ log = << <<S_threadId, J_two_members, "call">>,
                   <<S_threadId, J_empty_array, "call">> >>
       /\ state.accumulator.thread_id = Some(J_empty_array)

\* C30 witness: `repoSources` whose data does not parse, a number being out
\* of range, after two GitHub sources: both are still held, each with what
\* it does not name as a further member.
C30_WitnessTwoMembers ==
    /\ log = << <<S_repoSources, J_two_members, "call">>,
                <<S_repoSources, J_sources_out_of_range, "call">> >>
    /\ state.accumulator.github_sources =
          <<[repo |-> None, file_path |-> None,
             extra |-> {<< <<"u", "r", "l">>, <<"str", <<"u">>>> >>}],
            [repo |-> Some(<<"r">>), file_path |-> None,
             extra |-> {<< <<"x">>, <<"arr", << <<"num", <<"1">>>> >>>> >>}]>>
    /\ state.accumulator.sources = <<>>

\* The text sent after the last newline.
AfterLastNewline(text) == Split(text, "\n")[Len(Split(text, "\n"))]

\* C31: a step of the driver yields at most one item; bytes, or the end of
\* the stream, are taken from the upstream only by a driver that awaits
\* them with no newline in decoder_buffer, and the driver never comes to
\* await with a newline buffered; so when the upstream ends, decoder_buffer
\* is the text sent after the last newline.
C31_DriverIsLazy ==
    [][/\ Len(out') <= Len(out) + 1
       /\ (fed' # fed \/ byte_stream' # byte_stream) =>
            /\ pc = "await"
            /\ Find(state.decoder_buffer, "\n") = 0
       /\ pc' = "await" => Find(state'.decoder_buffer, "\n") = 0
       /\ (byte_stream = "open" /\ byte_stream' = "eof") =>
            state.decoder_buffer = AfterLastNewline(fed)]_vars

\* C31 witness: of a batch of four events the first chunk was yielded and
\* the driver is suspended with the other lines still buffered, the upstream
\* polled once.
C31_Witness ==
    /\ fed = F_events_tail
    /\ pc = "idle"
    /\ Len(out) = 1
    /\ Find(state.decoder_buffer, "\n") # 0
    /\ polls = 1

\* C31 witness: the upstream ended after that batch; two chunks and the
\* final chunk were yielded one by one and the residual was the text after
\* the last newline.
C31_WitnessEof ==
    /\ fed = F_events_tail
    /\ byte_stream = "eof"
    /\ Len(out) = 3
    /\ log[Len(log)] = <<S_message, <<"t">>, "residual">>

\* An `error` event was dispatched, on a blank line or in the residual flush.
ErrorSeen == \E i \in 1..Len(log) : log[i][1] = S_error

\* What the `rlq` and `q` events dispatched have put in the raw buffer: for
\* each one with data, a newline and the data trimmed.
RECURSIVE RawOf(_)
RawOf(entries) ==
    IF Len(entries) = 0 THEN <<>>
    ELSE IF entries[1][1] \in {<<"r", "l", "q">>, <<"q">>} /\ entries[1][2] # <<>>
         THEN <<"\n">> \o Trim(entries[1][2]) \o RawOf(Tail(entries))
    ELSE RawOf(Tail(entries))

\* C32: once an `error` event has been dispatched, mid-stream or in the
\* residual flush, related_questions is empty and stays so to the end of the
\* stream, whatever `rlq` and `q` events were received, while
\* related_questions_raw holds what they put in.
C32_NoRelatedQuestionsAfterError ==
    ErrorSeen =>
        /\ state.accumulator.related_questions = <<>>
        /\ state.accumulator.related_questions_raw = RawOf(log)

\* C32 witness: a related question, then an `error` event, then the end of
\* the stream: the raw buffer holds the question and no list was computed.
C32_Witness ==
    /\ log = << <<S_q, <<"B">>, "line">>, <<S_error, <<"b">>, "line">> >>
    /\ pc = "ended"
    /\ byte_stream = "eof"
    /\ state.accumulator.related_questions_raw = <<LF, "B">>
    /\ state.accumulator.related_questions = <<>>

\* C32 witness: the `error` event lacked its line end and was dispatched in
\* the residual flush, after a related question.
C32_WitnessResidual ==
    /\ log = << <<S_rlq, <<SP, "A", SP>>, "line">>, <<S_error, <<"b">>, "residual">> >>
    /\ pc = "ended"
    /\ state.accumulator.related_questions_raw = <<LF, "A">>
    /\ state.accumulator.related_questions = <<>>

====
